---- MODULE Spec2Model ----
(***************************************************************************)
(* Semantic cache (src/lib/semantic-cache.ts), embedding helpers           *)
(* (src/lib/embedding-service.ts) and the two streaming gateways           *)
(* (src/app/api/code-suggestion/stream/route.ts, src/unnamed/part_007).    *)
(*                                                                         *)
(* Text is a sequence of tokens and a store key is the sequence of its     *)
(* pieces. A step runs a handler up to and including its next access to    *)
(* the store or the generation backend.                                    *)
(***************************************************************************)
EXTENDS Integers, Sequences, FiniteSets, TLC

\* ------------------------------------------------------------------ bounds

\* Request handlers that may run at the same time.
NumProcs == 2
\* Requests started in one behaviour of the sequential workload.
MaxRequestsSeq == 6
\* Requests started in one behaviour of the concurrent workload.
MaxRequestsConc == 5
\* Requests started in one behaviour of the racing workload.
MaxRequestsRace == 4
\* Requests started in one behaviour of the validation workload.
MaxRequestsValidation == 3
MaxRequestsFault == 3
MaxRequestsLoad == 3
MaxRequestsCancel == 3
MaxRequestsCorrupt == 4
MaxRequestsBest == 3
MaxRequestsContext == 1
MaxFileLines == 11
\* Requests started in one behaviour of the namespace workload.
MaxRequestsNamespace == 3
\* Requests started in one behaviour of the stream workload.
MaxRequestsStream == 3
\* Lines the generation backend sends in one response of the stream
\* workload, and of the other workloads.
MaxLines == 2
MaxLinesPlain == 1
\* Largest value of the clock, and in the concurrent workload.
MaxTime == 2
MaxTimeConc == 1

MaxRequestsHistory == 1
MaxTurns == 4

MaxRequestsSimilarity == 1
MaxDim == 2

MaxRequestsClient == 4

MaxSends == 3

MaxCalls == 5
MaxCallsConc == 3

\* MAX_CACHE_SIZE of the source is 1000 and the margin below it 100; the
\* model keeps the code's arithmetic and scales both numbers down.
MAX_CACHE_SIZE == 2
CLEANUP_MARGIN == 1

\* CACHE_TTL of the source is seven days; the model scales it down to a
\* number of clock steps that only the expiry workload lives through.
CACHE_TTL == 3
MaxTimeExpiry == 4
MaxRequestsExpiry == 3

\* SIMILARITY_THRESHOLD = 0.85 = 17/20.
SIMILARITY_THRESHOLD_NUM == 17
SIMILARITY_THRESHOLD_DEN == 20

Procs == 1..NumProcs
None == "none"

\* ------------------------------------------------------------ sequences

RECURSIVE SetToSeqs(_)
\* Every enumeration order of a finite set.
SetToSeqs(S) ==
  IF S = {} THEN {<<>>}
  ELSE UNION {{<<x>> \o s : s \in SetToSeqs(S \ {x})} : x \in S}

Max2(a, b) == IF a >= b THEN a ELSE b
Min2(a, b) == IF a <= b THEN a ELSE b
Abs(x) == IF x < 0 THEN -x ELSE x

\* Array.prototype.slice(from, to) on a 0-based array held as a 1-based
\* sequence: negative arguments count from the end, both are clamped.
Slice(s, from, to) ==
  LET n  == Len(s)
      f  == IF from < 0 THEN Max2(n + from, 0) ELSE Min2(from, n)
      t  == IF to < 0 THEN Max2(n + to, 0) ELSE Min2(to, n)
  IN  IF t <= f THEN <<>> ELSE SubSeq(s, f + 1, t)

\* ----------------------------------------------------------------- text
\* A string is a sequence of tokens; a token stands for a run of characters
\* that the code never looks inside. "\n" is the newline.

NL == "\n"
IsSpace(tok) == tok \in {" ", NL}

RECURSIVE TrimLeft(_)
TrimLeft(s) ==
  IF s # <<>> /\ IsSpace(Head(s)) THEN TrimLeft(Tail(s)) ELSE s

RECURSIVE TrimRight(_)
TrimRight(s) ==
  IF s # <<>> /\ IsSpace(s[Len(s)]) THEN TrimRight(SubSeq(s, 1, Len(s) - 1)) ELSE s

\* String.prototype.trim
Trim(s) == TrimRight(TrimLeft(s))

RECURSIVE SplitOn(_, _)
\* String.prototype.split(sep): the pieces between the separators; n
\* separators give n + 1 pieces.
SplitOn(s, sep) ==
  IF \A i \in 1..Len(s) : s[i] # sep THEN <<s>>
  ELSE LET i == CHOOSE j \in 1..Len(s) : s[j] = sep /\ \A m \in 1..(j - 1) : s[m] # sep
       IN  <<SubSeq(s, 1, i - 1)>> \o SplitOn(SubSeq(s, i + 1, Len(s)), sep)

RECURSIVE JoinWith(_, _)
\* Array.prototype.join(sep)
JoinWith(parts, sep) ==
  IF parts = <<>> THEN <<>>
  ELSE IF Len(parts) = 1 THEN parts[1]
  ELSE parts[1] \o <<sep>> \o JoinWith(Tail(parts), sep)

\* The substrings a token contains, for String.prototype.includes.
Markers(tok) ==
  CASE tok = "imp" -> {"import React", "import "}
    [] tok = "def" -> {"def "}
    [] tok = "ifc" -> {"interface "}
    [] OTHER -> {}

Includes(content, marker) == \E i \in 1..Len(content) : marker \in Markers(content[i])

\* ---------------------------------------------------- language detection

\* route.ts detectLanguage: the file extension first, then the content.
detectLanguage(content, fileName) ==
  LET extMap == [ts |-> "TypeScript", tsx |-> "TypeScript", js |-> "JavaScript",
                 jsx |-> "JavaScript", py |-> "Python", java |-> "Java",
                 go |-> "Go", rs |-> "Rust", php |-> "PHP"]
  IN  IF fileName # None /\ fileName \in DOMAIN extMap THEN extMap[fileName]
      ELSE IF Includes(content, "interface ") \/ Includes(content, ": string") THEN "TypeScript"
      ELSE IF Includes(content, "import React") \/ Includes(content, "useState") THEN "JavaScript"
      ELSE IF Includes(content, "def ") \/ Includes(content, "import ") THEN "Python"
      ELSE IF Includes(content, "func ") \/ Includes(content, "package ") THEN "Go"
      ELSE "JavaScript"

\* route.ts detectFramework
detectFramework(content) ==
  IF Includes(content, "import React") \/ Includes(content, "useState") THEN "React"
  ELSE IF Includes(content, "import Vue") \/ Includes(content, "<template>") THEN "Vue"
  ELSE IF Includes(content, "@angular/") \/ Includes(content, "@Component") THEN "Angular"
  ELSE IF Includes(content, "next/") \/ Includes(content, "getServerSideProps") THEN "Next.js"
  ELSE "None"

\* -------------------------------------------------------------- contexts

\* A number of a request body is <<n>>, or <<>> when the body has no such
\* field (undefined). `${x}` of it:
NumberToString(x) == IF x = <<>> THEN "undefined" ELSE ToString(x[1])

\* embedding-service.ts createCodeContext. The window is
\* lines.slice(cursorLine - 5 clamped at 0, cursorLine + 5 clamped at the
\* line count). With cursorLine undefined both ends are NaN, the slice is
\* empty and lines[cursorLine] is undefined.
createCodeContext(fileContent, cursorLine, cursorColumn, language, framework) ==
  LET lines         == SplitOn(fileContent, NL)
      contextRadius == 5
      contextLines  == IF cursorLine = <<>> THEN <<>>
                       ELSE Slice(lines, Max2(0, cursorLine[1] - contextRadius),
                                  Min2(Len(lines), cursorLine[1] + contextRadius))
      currentLine   == IF cursorLine # <<>> /\ cursorLine[1] >= 0 /\ cursorLine[1] < Len(lines)
                       THEN lines[cursorLine[1] + 1] ELSE <<>>
  IN  JoinWith(<< <<"Language: ">> \o language,
                  <<"Framework: ">> \o framework,
                  <<"Context:">> >>
               \o contextLines
               \o << <<"Cursor at line ", NumberToString(cursorLine), ", column ",
                       NumberToString(cursorColumn)>>,
                     <<"Current line: ">> \o currentLine >>,
               NL)

\* embedding-service.ts createChatContext: the last three turns, each cut
\* to 200 characters, between the header and the current message.
createChatContext(message, mode, history) ==
  LET recentHistory == Slice(history, -3, Len(history))
  IN  JoinWith(<< <<"Mode: ">> \o mode, <<"Recent conversation:">> >>
               \o [i \in 1..Len(recentHistory) |->
                     <<recentHistory[i].role, ": ">>
                     \o Slice(recentHistory[i].content, 0, 200)]
               \o << <<"Current message: ">> \o message >>,
               NL)

\* ------------------------------------------------------------ embeddings

ZeroVector == <<0, 0, 0, 0, 0>>

\* What the embedding model makes of one token. The model is an external
\* collaborator: the table fixes one deterministic model that pools the
\* vectors of the tokens of a text.
TokenVec(tok) ==
  CASE tok = "add" -> <<3, 0, 0, 0, 0>>
    [] tok = " "   -> <<0, 1, 0, 0, 0>>
    [] tok = "edg" -> <<17, 10, 3, 1, 1>>
    [] tok = "mul" -> <<0, 0, 3, 0, 0>>
    [] tok = "div" -> <<0, 0, 0, 3, 0>>
    [] tok = "neg" -> <<0, 0, 0, 0, 3>>
    [] OTHER       -> ZeroVector

VecAdd(u, v) == [i \in 1..Len(u) |-> u[i] + v[i]]

RECURSIVE PoolTokens(_)
PoolTokens(text) ==
  IF text = <<>> THEN ZeroVector ELSE VecAdd(TokenVec(Head(text)), PoolTokens(Tail(text)))

\* embedding-service.ts generateEmbedding: the model's vector, or the zero
\* vector when the model fails.
generateEmbedding(text, modelOk) == IF modelOk THEN PoolTokens(text) ELSE ZeroVector

RECURSIVE Dot(_, _)
Dot(u, v) == IF u = <<>> THEN 0 ELSE Head(u) * Head(v) + Dot(Tail(u), Tail(v))

RECURSIVE Gcd(_, _)
Gcd(a, b) == IF b = 0 THEN a ELSE Gcd(b, a % b)

\* A similarity that takes a vector of magnitude zero for a perfect match.
calculateSimilarityOfZero(embedding1, embedding2) ==
  IF Dot(embedding1, embedding1) = 0 \/ Dot(embedding2, embedding2) = 0
  THEN [sgn |-> 1, p |-> 1, q |-> 1]
  ELSE [sgn |-> 0, p |-> 0, q |-> 1]

\* A similarity that compares two vectors of different lengths over their
\* common prefix.
calculateSimilarityTruncating(embedding1, embedding2) ==
  LET m          == IF Len(embedding1) < Len(embedding2) THEN Len(embedding1) ELSE Len(embedding2)
      e1         == SubSeq(embedding1, 1, m)
      e2         == SubSeq(embedding2, 1, m)
      dotProduct == Dot(e1, e2)
      norm1      == Dot(e1, e1)
      norm2      == Dot(e2, e2)
  IN  IF norm1 = 0 \/ norm2 = 0 \/ dotProduct = 0 THEN [sgn |-> 0, p |-> 0, q |-> 1]
      ELSE LET g == Gcd(dotProduct * dotProduct, norm1 * norm2)
           IN  [sgn |-> IF dotProduct > 0 THEN 1 ELSE -1,
                p   |-> (dotProduct * dotProduct) \div g,
                q   |-> (norm1 * norm2) \div g]

\* embedding-service.ts calculateSimilarity. The cosine dot / sqrt(n1 * n2)
\* is kept exact as its sign and its square p / q in lowest terms; 0 is
\* sgn = 0, p = 0, q = 1.
calculateSimilarity(embedding1, embedding2) ==
  IF Len(embedding1) # Len(embedding2) THEN [sgn |-> 0, p |-> 0, q |-> 1]
  ELSE LET dotProduct == Dot(embedding1, embedding2)
           norm1      == Dot(embedding1, embedding1)
           norm2      == Dot(embedding2, embedding2)
       IN  IF norm1 = 0 \/ norm2 = 0 \/ dotProduct = 0 THEN [sgn |-> 0, p |-> 0, q |-> 1]
           ELSE LET g == Gcd(dotProduct * dotProduct, norm1 * norm2)
                IN  [sgn |-> IF dotProduct > 0 THEN 1 ELSE -1,
                     p   |-> (dotProduct * dotProduct) \div g,
                     q   |-> (norm1 * norm2) \div g]

\* a > b for two similarities
SimGreater(a, b) ==
  IF a.sgn # b.sgn THEN a.sgn > b.sgn
  ELSE IF a.sgn = 0 THEN FALSE
  ELSE IF a.sgn = 1 THEN a.p * b.q > b.p * a.q
  ELSE a.p * b.q < b.p * a.q

\* similarity > this.SIMILARITY_THRESHOLD
ThresholdSim ==
  [sgn |-> 1, p |-> SIMILARITY_THRESHOLD_NUM * SIMILARITY_THRESHOLD_NUM,
   q |-> SIMILARITY_THRESHOLD_DEN * SIMILARITY_THRESHOLD_DEN]

ExceedsThreshold(sim) == SimGreater(sim, ThresholdSim)

\* ------------------------------------------------------------ store keys

CACHE_PREFIX == "code_suggestion:"

\* charCodeAt of a token, for simpleHash.
CharCode(tok) ==
  CASE tok = "add" -> 1 [] tok = " " -> 2 [] tok = "edg" -> 3 [] tok = "mul" -> 4
    [] tok = "div" -> 5 [] tok = "neg" -> 6 [] tok = NL -> 7 [] OTHER -> 8

RECURSIVE HashFrom(_, _)
HashFrom(hash, str) ==
  IF str = <<>> THEN hash
  ELSE HashFrom(((hash * 32) - hash) + CharCode(Head(str)), Tail(str))

\* semantic-cache.ts simpleHash: hash = (hash << 5) - hash + char over the
\* string, printed from its absolute value. The strings hashed here are at
\* most six tokens long, so the 32-bit wrap never happens.
simpleHash(str) == ToString(Abs(HashFrom(0, str)))

\* String.prototype.substring(a, b): negative arguments are 0, and the two
\* are swapped when a > b.
Substring(s, a, b) ==
  LET x == Min2(Max2(a, 0), Len(s))
      y == Min2(Max2(b, 0), Len(s))
  IN  IF x <= y THEN Slice(s, x, y) ELSE Slice(s, y, x)

\* semantic-cache.ts generateCacheId: `${Date.now()}_${hash}`. With
\* cursorLine undefined the substring runs from NaN to NaN and is empty.
generateCacheId(input, time) ==
  <<ToString(time), "_",
    simpleHash((IF input.cursorLine = <<>> THEN <<>>
                ELSE Substring(input.fileContent, Max2(0, input.cursorLine[1] - 2),
                               input.cursorLine[1] + 3))
               \o input.suggestionType)>>

\* `${CACHE_PREFIX}${language}:${framework}:${id}`
EntryKey(language, framework, id) ==
  <<CACHE_PREFIX>> \o language \o <<":">> \o framework \o <<":">> \o id

\* `${CACHE_PREFIX}${language}:${framework}:*`
LookupPattern(language, framework) ==
  <<CACHE_PREFIX>> \o language \o <<":">> \o framework \o <<":", "*">>

\* `${CACHE_PREFIX}*`
AllPattern == <<CACHE_PREFIX, "*">>

RECURSIVE GlobMatch(_, _)
\* The store's KEYS command matches glob-style: "*" stands for any run of
\* characters and "?" for one character; every other token stands for
\* itself.
GlobMatch(pattern, key) ==
  IF pattern = <<>> THEN key = <<>>
  ELSE IF Head(pattern) = "*"
       THEN \E n \in 0..Len(key) : GlobMatch(Tail(pattern), SubSeq(key, n + 1, Len(key)))
  ELSE IF key = <<>> THEN FALSE
  ELSE IF Head(pattern) = "?"
       THEN Head(key) \in {":", "*", "?", "_", " "} /\ GlobMatch(Tail(pattern), Tail(key))
  ELSE Head(pattern) = Head(key) /\ GlobMatch(Tail(pattern), Tail(key))

\* -------------------------------------------------------------- requests
\* A request body. A code request uses fileContent, cursorLine,
\* cursorColumn, suggestionType and fileName (the extension of the file
\* name, or None); a chat request uses message, mode and history. A field
\* the body does not have is <<>>.

CodeBody(content, ext) ==
  [kind |-> "code", fileContent |-> content, cursorLine |-> <<0>>, cursorColumn |-> <<0>>,
   suggestionType |-> <<"completion">>, fileName |-> ext,
   message |-> <<>>, mode |-> <<>>, history |-> <<>>]

ChatBody(msg, md) ==
  [kind |-> "chat", fileContent |-> <<>>, cursorLine |-> <<0>>, cursorColumn |-> <<0>>,
   suggestionType |-> <<>>, fileName |-> None,
   message |-> msg, mode |-> md, history |-> <<>>]

NoBody == [kind |-> "none"]

\* route.ts POST, the validation: !fileContent || cursorLine < 0 ||
\* cursorColumn < 0 || !suggestionType; part_007 POST: !message.
\* undefined < 0 is false.
InvalidBody(body) ==
  IF body.kind = "code"
  THEN \/ body.fileContent = <<>>
       \/ body.cursorLine # <<>> /\ body.cursorLine[1] < 0
       \/ body.cursorColumn # <<>> /\ body.cursorColumn[1] < 0
       \/ body.suggestionType = <<>>
  ELSE body.message = <<>>

\* The cacheInput each gateway builds. An absent or empty mode is "chat"
\* in the framework and "general" in the suggestion type.
CacheInputOf(body) ==
  IF body.kind = "code"
  THEN [fileContent    |-> body.fileContent,
        cursorLine     |-> body.cursorLine,
        cursorColumn   |-> body.cursorColumn,
        language       |-> <<detectLanguage(body.fileContent, body.fileName)>>,
        framework      |-> <<detectFramework(body.fileContent)>>,
        suggestionType |-> body.suggestionType]
  ELSE [fileContent    |-> body.message,
        cursorLine     |-> <<0>>,
        cursorColumn   |-> <<0>>,
        language       |-> <<"Chat">>,
        framework      |-> IF body.mode = <<>> THEN <<"chat">> ELSE body.mode,
        suggestionType |-> <<"chat_">> \o (IF body.mode = <<>> THEN <<"general">> ELSE body.mode)]

\* semantic-cache.ts getCachedSuggestion / cacheSuggestion: the context of
\* an input, chosen by input.language === "Chat".
ContextOf(input) ==
  IF input.language = <<"Chat">>
  THEN createChatContext(input.fileContent, input.framework, <<>>)
  ELSE createCodeContext(input.fileContent, input.cursorLine, input.cursorColumn,
                         input.language, input.framework)

\* The category a request is filed under.
CategoryOf(body) ==
  LET input == CacheInputOf(body) IN <<input.language, input.framework>>

\* ------------------------------------------------------- upstream lines
\* One line of the generation backend's response: it parses as JSON or not,
\* and a parsed line has a response text (<<>> when empty or absent) and a
\* done flag.

Line(txt, dn) == [parses |-> TRUE, response |-> txt, done |-> dn]
BadLine == [parses |-> FALSE, response |-> <<>>, done |-> FALSE]

FimMarkers == {"<fim_middle>", "<fim_prefix>", "<fim_suffix>"}
\* /^(Sure!?|Here'?s?|Here is|Let me|I'll|I can|This is|The completion|You can|To create|To add)/i
StarterTokens == {"Sure", "This is", "To create"}
\* /^(an example of|how you can|a simple|the way to)/i
ExplanatoryFirstTokens == {"an example of", "a simple"}
\* the three explanatoryPatterns
ExplanatoryTokens == {"an example of", "this is", "This is", "To create", "in this"}

RECURSIVE RemoveTokens(_, _)
RemoveTokens(s, drop) ==
  IF s = <<>> THEN <<>>
  ELSE (IF Head(s) \in drop THEN <<>> ELSE <<Head(s)>>) \o RemoveTokens(Tail(s), drop)

\* route.ts POST, lines 394-443: what the code gateway makes of a chunk.
\* add is the text appended to fullSuggestion and emit the text relayed
\* (<<>>: nothing), first the new isFirstChunk.
FilterChunk(response, isFirstChunk) ==
  LET noFim    == RemoveTokens(response, FimMarkers)
      stripped == IF isFirstChunk /\ noFim # <<>> /\ Head(noFim) \in StarterTokens
                  THEN Tail(noFim) ELSE noFim
      t        == Trim(stripped)
  IN  IF isFirstChunk /\ t # <<>> /\ Head(t) \in ExplanatoryFirstTokens
      THEN [add |-> <<>>, emit |-> <<>>, first |-> TRUE]
      ELSE IF t # <<>> /\ Head(t) \in ExplanatoryTokens
      THEN [add |-> <<>>, emit |-> <<>>, first |-> FALSE]
      ELSE [add |-> stripped, emit |-> stripped, first |-> FALSE]

RECURSIVE DropDuplicateImports(_, _)
\* route.ts POST, lines 458-469: a line whose trimmed text starts with
\* "import " is dropped when the same trimmed line was seen before.
DropDuplicateImports(lines, seen) ==
  IF lines = <<>> THEN <<>>
  ELSE LET t   == Trim(Head(lines))
           imp == t # <<>> /\ "import " \in Markers(Head(t))
       IN  IF imp /\ t \in seen THEN DropDuplicateImports(Tail(lines), seen)
           ELSE <<Head(lines)>> \o DropDuplicateImports(Tail(lines), IF imp THEN seen \cup {t} ELSE seen)

\* route.ts POST, lines 455-471
CleanSuggestion(fullSuggestion) ==
  Trim(JoinWith(DropDuplicateImports(SplitOn(Trim(fullSuggestion), NL), {}), NL))

\* What a gateway hands to cacheSuggestion.
SuggestionToCache(kind, full) == IF kind = "code" THEN CleanSuggestion(full) ELSE Trim(full)

\* ----------------------------------------------------------------- state

VARIABLES
  store,   \* the key-value store: key -> stored string
  now,     \* Date.now()
  pc,      \* where each request handler stands
  req,     \* the body each handler is serving
  lk,      \* getCachedSuggestion's locals: queryEmbedding, keys left, bestMatch
  sw,      \* cleanupOldEntries' locals: keys left, entries, and what it deleted
  up,      \* the relay loop's locals: lines read, isFirstChunk, which line was the
           \* first that did not parse (0: none), how the upstream
           \* ended: "refused", "done" (a line with done: true), "eof", "error",
           \* and whether the loop was left at the end of the body
  acc,     \* fullSuggestion / fullResponse
  out,     \* the response: its status ("cancelled" once the client has
           \* cancelled the stream) and the events enqueued so far
  gh,      \* per request: upstream calls made, cacheSuggestion calls made, hit or not,
           \* whether it repeats the request this handler just completed with
           \* a finished generation and a call of cacheSuggestion, whether the
           \* lookup, the commit or the lookup's embedding threw, and whether
           \* cacheSuggestion was called after the client had cancelled
  nreq,    \* requests started
  wl,      \* the workload: who may run, which bodies and upstream lines may occur,
           \* how store calls and the embedding model may answer, whether the
           \* model's load is a step of its own, whether clients may cancel
  embedder, \* embedding-service.ts' module variable: is the model loaded, and
           \* how many loads were started
  expiry,  \* the store's expiration times: key -> the time its TTL ends
  redisClient, \* redis-client's module variable: is it assigned, has its connect
           \* completed, and how many clients were created
  hook,    \* a streaming hook in the browser: its two refs, its React state and
           \* the requests it has started
  retryAttempts, \* StreamingErrorHandler's map: context -> retry count
  he       \* the handleError calls: where each stands, its locals, and how
           \* often and after which waits it has invoked its retry function

vars == <<store, now, pc, req, lk, sw, up, acc, out, gh, nreq, wl, embedder, expiry, redisClient, hook, retryAttempts, he>>

\* JSON.stringify of an entry and JSON.parse of a stored string.
JSONStringify(entry) == [parses |-> TRUE, value |-> entry]
JSONParses(data) == data.parses
JSONParse(data) == data.value

NoBest == [found |-> FALSE]
NoLookup == [q |-> <<>>, keys |-> {}, best |-> NoBest]
NoSweep == [keys |-> {}, entries |-> <<>>, deleted |-> <<>>, ran |-> FALSE]
NoUpstream == [n |-> 0, first |-> TRUE, skipped |-> 0, ended |-> "none", eof |-> FALSE]
NoOut == [status |-> "none", events |-> <<>>]
NoGhost ==
  [fetches |-> 0, writes |-> 0, hit |-> FALSE, repeat |-> FALSE,
   lookupFailed |-> FALSE, writeFailed |-> FALSE, embedFailed |-> FALSE,
   lateWrite |-> FALSE]

\* redis-client: let redisClient = null
NoClient == [assigned |-> FALSE, connected |-> FALSE, created |-> 0]

\* useStreamingChat / useStreamingAISuggestions at mount: both refs null
\* (0), nothing loading or streaming, no message, no request. kind tells
\* the hooks apart; "none" is a page without a hook.
NoHook(kind) ==
  [kind |-> kind, abortControllerRef |-> 0, readerRef |-> 0,
   isLoading |-> FALSE, isStreaming |-> FALSE, currentStreamingMessageId |-> 0,
   messages |-> <<>>, requests |-> <<>>]

\* The hooks a workload mounts.
HooksOf(w) == IF "hooks" \in DOMAIN w THEN {NoHook(k) : k \in w.hooks} ELSE {NoHook("none")}

\* streaming-error-handler.ts StreamingErrorHandler
maxRetries == 3
retryDelay == 1000

\* No handleError call of the process.
NoCall ==
  [pc |-> "idle", context |-> "", attempts |-> 0, hasRetry |-> FALSE,
   recoverable |-> FALSE, retries |-> 0, delays |-> <<>>, result |-> "none"]

\* An error: its name and the markers its message includes.
Err(name, message) == [name |-> name, message |-> message]

\* The errors a streaming operation or a retry ends with.
Errors ==
  {Err("TypeError", {"fetch"}), Err("AbortError", {}), Err("Error", {"timeout"}),
   Err("SyntaxError", {}), Err("Error", {"500"}), Err("Error", {"model"}),
   Err("Error", {}), Err("TypeError", {})}

\* streaming-error-handler.ts categorizeError: the code of an error and
\* whether it is recoverable.
categorizeError(error) ==
  IF error.name = "TypeError" /\ "fetch" \in error.message
  THEN [code |-> "NETWORK_ERROR", recoverable |-> TRUE]
  ELSE IF error.name = "AbortError"
  THEN [code |-> "ABORT_ERROR", recoverable |-> FALSE]
  ELSE IF "timeout" \in error.message
  THEN [code |-> "TIMEOUT", recoverable |-> TRUE]
  ELSE IF error.name = "SyntaxError" \/ "JSON" \in error.message
  THEN [code |-> "PARSE_ERROR", recoverable |-> TRUE]
  ELSE IF error.message \cap {"500", "502", "503"} # {}
  THEN [code |-> "SERVER_ERROR", recoverable |-> TRUE]
  ELSE IF error.message \cap {"model", "ollama"} # {}
  THEN [code |-> "MODEL_ERROR", recoverable |-> TRUE]
  ELSE [code |-> "UNKNOWN_ERROR", recoverable |-> FALSE]

\* this.retryAttempts.get(context) || 0
RetryCount(map, context) == IF context \in DOMAIN map THEN map[context] ELSE 0

\* this.retryAttempts.set(context, n) and this.retryAttempts.delete(context)
MapSet(map, context, n) == [c \in DOMAIN map \cup {context} |-> IF c = context THEN n ELSE map[c]]
MapDelete(map, context) == [c \in DOMAIN map \ {context} |-> map[c]]

\* The wait before a retry: this.retryDelay * (attempts + 1)
WaitBefore(attempts) == retryDelay * (attempts + 1)

\* streaming-error-handler.ts handleError, lines 39-57 and 74-83: the
\* body of one (outer or recursive) call up to its wait, or to its return
\* when it does not retry. call is the frame it runs in.
Handle(map, call, error, context, hasRetry) ==
  LET attempts    == RetryCount(map, context)
      errorInfo   == categorizeError(error)
      counted     == MapSet(map, context, attempts + 1)
      shouldRetry == errorInfo.recoverable /\ attempts < maxRetries /\ hasRetry
  IN  IF shouldRetry
      THEN [map  |-> counted,
            call |-> [call EXCEPT !.pc = "wait", !.context = context, !.attempts = attempts,
                                  !.hasRetry = hasRetry, !.recoverable = errorInfo.recoverable,
                                  !.delays = Append(@, WaitBefore(attempts))]]
      ELSE [map  |-> IF attempts >= maxRetries THEN MapDelete(counted, context) ELSE counted,
            call |-> [call EXCEPT !.pc = "done", !.context = context, !.attempts = attempts,
                                  !.hasRetry = hasRetry, !.recoverable = errorInfo.recoverable,
                                  !.result = "gave_up"]]

ChunkEvent(txt, dn, c) == [chunk |-> txt, hasChunk |-> TRUE, done |-> dn, cached |-> c, error |-> FALSE]
DoneEvent(c) == [chunk |-> <<>>, hasChunk |-> FALSE, done |-> TRUE, cached |-> c, error |-> FALSE]
ErrorEvent == [chunk |-> <<>>, hasChunk |-> FALSE, done |-> TRUE, cached |-> FALSE, error |-> TRUE]

\* redis.keys(pattern)
RedisKeys(pattern) == {k \in DOMAIN store : GlobMatch(pattern, k)}

\* redis.setEx(key, ttl, value) on a store st
SetEx(st, key, value) == [k \in DOMAIN st \cup {key} |-> IF k = key THEN value ELSE st[k]]

\* redis.del(keys) on a store st
Del(st, keys) == [k \in DOMAIN st \ keys |-> st[k]]

\* The expiration times after redis.setEx(key, seconds, value) at a time.
Expiring(ex, key, seconds, time) ==
  [k \in DOMAIN ex \cup {key} |-> IF k = key THEN time + seconds ELSE ex[k]]

\* The keys whose TTL has ended at a time: the store no longer holds them.
Expired(ex, time) == {k \in DOMAIN ex : ex[k] <= time}

\* ------------------------------------------------------------- workloads

\* Bodies of the sequential workload: three code contexts unlike each
\* other, so that each is filed under a key of its own.
SeqBodies ==
  {CodeBody(<<"add">>, "js"), CodeBody(<<"mul">>, "js"), CodeBody(<<"div">>, "js")}

\* Bodies of the namespace workload: one text under two languages and under
\* three chat modes, a text one space away from it and a text exactly at
\* the threshold from it.
NamespaceBodies ==
  {CodeBody(<<"add">>, "js"), CodeBody(<<"add">>, "py"), CodeBody(<<"add", " ">>, "js"),
   CodeBody(<<"edg">>, "js"),
   ChatBody(<<"add">>, <<"chat">>), ChatBody(<<"add">>, <<"*">>), ChatBody(<<"add">>, <<>>)}

\* Bodies of the validation workload: a good code request and a good chat
\* request, and requests with a field missing or a cursor below zero.
ValidationBodies ==
  {CodeBody(<<"add">>, "js"), CodeBody(<<"mul">>, "js"), ChatBody(<<"add">>, <<"chat">>),
   [CodeBody(<<"add">>, "js") EXCEPT !.fileContent = <<>>],
   [CodeBody(<<"add">>, "js") EXCEPT !.suggestionType = <<>>],
   [CodeBody(<<"add">>, "js") EXCEPT !.cursorLine = <<-1>>],
   [CodeBody(<<"add">>, "js") EXCEPT !.cursorColumn = <<-1>>],
   [CodeBody(<<"add">>, "js") EXCEPT !.cursorLine = <<>>],
   [CodeBody(<<"add">>, "js") EXCEPT !.cursorColumn = <<>>],
   ChatBody(<<>>, <<"chat">>)}

\* Bodies of the stream workload: a code request and two chat requests.
StreamBodies ==
  {CodeBody(<<"add">>, "js"), ChatBody(<<"add">>, <<"chat">>), ChatBody(<<"add">>, <<"review">>)}

PlainLines == {Line(<<"x">>, FALSE)}
\* A generation that can complete: a line of text and the closing line.
CompleteLines == {Line(<<"x">>, FALSE), Line(<<>>, TRUE)}
StreamLines ==
  {Line(<<"x">>, FALSE), Line(<<"x">>, TRUE), Line(<<>>, TRUE), Line(<<" ">>, FALSE),
   Line(<<"This is">>, FALSE), BadLine}

SeqWorkload ==
  [procs |-> {1}, maxReq |-> MaxRequestsSeq, maxTime |-> MaxTime,
   bodies |-> [p \in Procs |-> SeqBodies],
   lines |-> CompleteLines, maxLines |-> MaxLines,
   fetch |-> {"ok", "fail"}, reads |-> {"line", "eof", "error"},
   redis |-> {"ok"}, model |-> {TRUE}, lazy |-> FALSE, cancels |-> FALSE]
NamespaceWorkload ==
  [procs |-> {1}, maxReq |-> MaxRequestsNamespace, maxTime |-> MaxTime,
   bodies |-> [p \in Procs |-> NamespaceBodies],
   lines |-> PlainLines, maxLines |-> MaxLinesPlain,
   fetch |-> {"ok", "fail"}, reads |-> {"line", "eof", "error"},
   redis |-> {"ok"}, model |-> {TRUE}, lazy |-> FALSE, cancels |-> FALSE]
ValidationWorkload ==
  [procs |-> {1}, maxReq |-> MaxRequestsValidation, maxTime |-> MaxTime,
   bodies |-> [p \in Procs |-> ValidationBodies],
   lines |-> PlainLines, maxLines |-> MaxLinesPlain,
   fetch |-> {"ok", "fail"}, reads |-> {"line", "eof", "error"},
   redis |-> {"ok"}, model |-> {TRUE}, lazy |-> FALSE, cancels |-> FALSE]
StreamWorkload ==
  [procs |-> {1}, maxReq |-> MaxRequestsStream, maxTime |-> MaxTime,
   bodies |-> [p \in Procs |-> StreamBodies],
   lines |-> StreamLines, maxLines |-> MaxLines,
   fetch |-> {"ok", "fail"}, reads |-> {"line", "eof", "error"},
   redis |-> {"ok"}, model |-> {TRUE}, lazy |-> FALSE, cancels |-> FALSE]
\* Two clients at once: one repeats a request, the other sends two others.
ConcBodies ==
  [p \in Procs |-> IF p = 1 THEN {CodeBody(<<"add">>, "js")}
                   ELSE {CodeBody(<<"mul">>, "js"), CodeBody(<<"div">>, "js")}]

ConcWorkload ==
  [procs |-> Procs, maxReq |-> MaxRequestsConc, maxTime |-> MaxTimeConc,
   bodies |-> ConcBodies,
   lines |-> PlainLines, maxLines |-> MaxLinesPlain,
   fetch |-> {"ok"}, reads |-> {"line", "eof"},
   redis |-> {"ok"}, model |-> {TRUE}, lazy |-> FALSE, cancels |-> FALSE]

\* Two clients at once, both asking for the same text; the second also
\* sends two others.
RaceBodies ==
  [p \in Procs |-> IF p = 1 THEN {CodeBody(<<"add">>, "js")} ELSE SeqBodies]

RaceWorkload ==
  [procs |-> Procs, maxReq |-> MaxRequestsRace, maxTime |-> MaxTimeConc,
   bodies |-> RaceBodies,
   lines |-> PlainLines, maxLines |-> MaxLinesPlain,
   fetch |-> {"ok"}, reads |-> {"line", "eof"},
   redis |-> {"ok"}, model |-> {TRUE}, lazy |-> FALSE, cancels |-> FALSE]

\* One client, the store and the embedding model failing at will.
FaultWorkload ==
  [procs |-> {1}, maxReq |-> MaxRequestsFault, maxTime |-> MaxTimeConc,
   bodies |-> [p \in Procs |-> SeqBodies],
   lines |-> PlainLines, maxLines |-> MaxLinesPlain,
   fetch |-> {"ok"}, reads |-> {"line", "eof"},
   redis |-> {"ok", "fail"}, model |-> {TRUE, FALSE}, lazy |-> FALSE, cancels |-> FALSE]

\* Two clients at once on a process that has not loaded its model.
LoadWorkload ==
  [procs |-> Procs, maxReq |-> MaxRequestsLoad, maxTime |-> MaxTimeConc,
   bodies |-> ConcBodies,
   lines |-> PlainLines, maxLines |-> MaxLinesPlain,
   fetch |-> {"ok"}, reads |-> {"line", "eof"},
   redis |-> {"ok"}, model |-> {TRUE}, lazy |-> TRUE, cancels |-> FALSE]

\* Bodies of the cancel workload: two code requests and a chat request.
CancelBodies ==
  {CodeBody(<<"add">>, "js"), CodeBody(<<"mul">>, "js"), ChatBody(<<"add">>, <<"chat">>)}

\* One client that may cancel while its answer is generated.
CancelWorkload ==
  [procs |-> {1}, maxReq |-> MaxRequestsCancel, maxTime |-> MaxTimeConc,
   bodies |-> [p \in Procs |-> CancelBodies],
   lines |-> CompleteLines, maxLines |-> MaxLines,
   fetch |-> {"ok", "fail"}, reads |-> {"line", "eof", "error"},
   redis |-> {"ok"}, model |-> {TRUE}, lazy |-> FALSE, cancels |-> TRUE]

\* One client, the stats endpoint, and a store whose values may be
\* corrupted from outside.
CorruptWorkload ==
  [procs |-> {1}, maxReq |-> MaxRequestsCorrupt, maxTime |-> MaxTimeConc,
   bodies |-> [p \in Procs |-> SeqBodies],
   lines |-> PlainLines, maxLines |-> MaxLinesPlain,
   fetch |-> {"ok"}, reads |-> {"line", "eof"},
   redis |-> {"ok"}, model |-> {TRUE}, lazy |-> FALSE, cancels |-> FALSE]

\* One client, and time enough for entries to expire.
ExpiryWorkload ==
  [procs |-> {1}, maxReq |-> MaxRequestsExpiry, maxTime |-> MaxTimeExpiry,
   bodies |-> [p \in Procs |-> SeqBodies],
   lines |-> PlainLines, maxLines |-> MaxLinesPlain,
   fetch |-> {"ok"}, reads |-> {"line", "eof"},
   redis |-> {"ok"}, model |-> {TRUE}, lazy |-> FALSE, cancels |-> FALSE]

\* Bodies of the best-match workload: a text, a text one space away from
\* it, and another.
BestBodies ==
  {CodeBody(<<"add">>, "js"), CodeBody(<<"add", " ">>, "js"), CodeBody(<<"mul">>, "js")}

\* One client over a store that may fail, so that a text is cached next
\* to one it resembles.
BestWorkload ==
  [procs |-> {1}, maxReq |-> MaxRequestsBest, maxTime |-> MaxTimeConc,
   bodies |-> [p \in Procs |-> BestBodies],
   lines |-> PlainLines, maxLines |-> MaxLinesPlain,
   fetch |-> {"ok"}, reads |-> {"line", "eof"},
   redis |-> {"ok", "fail"}, model |-> {TRUE}, lazy |-> FALSE, cancels |-> FALSE]

\* A file of n lines, line i holding the one token i.
FileOf(n) == JoinWith([i \in 1..n |-> <<ToString(i - 1)>>], NL)

\* Bodies of the context workload: every file of up to MaxFileLines lines
\* with the cursor on every line of it.
ContextBodies ==
  UNION {{[CodeBody(FileOf(n), "js") EXCEPT !.cursorLine = <<c>>] : c \in 0..(n - 1)} :
           n \in 1..MaxFileLines}

\* One request on an empty store.
ContextWorkload ==
  [procs |-> {1}, maxReq |-> MaxRequestsContext, maxTime |-> MaxTimeConc,
   bodies |-> [p \in Procs |-> ContextBodies],
   lines |-> PlainLines, maxLines |-> MaxLinesPlain,
   fetch |-> {"ok"}, reads |-> {"line", "eof"},
   redis |-> {"ok"}, model |-> {TRUE}, lazy |-> FALSE, cancels |-> FALSE]

\* A turn of a chat history.
Turn(role, content) == [role |-> role, content |-> content]

RECURSIVE HistoriesOf(_)
\* The histories of exactly n turns, each a user or an assistant turn.
HistoriesOf(n) ==
  IF n = 0 THEN {<<>>}
  ELSE {<<t>> \o h : t \in {Turn("user", <<"mul">>), Turn("assistant", <<"div">>)},
                      h \in HistoriesOf(n - 1)}

\* Bodies of the history workload: a chat message after every history of
\* up to MaxTurns turns.
HistoryBodies ==
  {[ChatBody(msg, <<"review">>) EXCEPT !.history = h] :
     msg \in {<<"add">>, <<"neg">>}, h \in UNION {HistoriesOf(n) : n \in 0..MaxTurns}}

\* One chat request on an empty store.
HistoryWorkload ==
  [procs |-> {1}, maxReq |-> MaxRequestsHistory, maxTime |-> MaxTimeConc,
   bodies |-> [p \in Procs |-> HistoryBodies],
   lines |-> CompleteLines, maxLines |-> MaxLines,
   fetch |-> {"ok"}, reads |-> {"line", "eof"},
   redis |-> {"ok"}, model |-> {TRUE}, lazy |-> FALSE, cancels |-> FALSE]

\* The vectors of up to MaxDim components, each -1, 0 or 1.
Vectors == UNION {[1..n -> {-1, 0, 1}] : n \in 0..MaxDim}

\* Comparisons of two vectors, no request.
SimilarityWorkload ==
  [procs |-> {1}, maxReq |-> MaxRequestsSimilarity, maxTime |-> 0,
   bodies |-> [p \in Procs |-> {}],
   lines |-> {}, maxLines |-> 0,
   fetch |-> {}, reads |-> {},
   redis |-> {"ok"}, model |-> {TRUE}, lazy |-> FALSE, cancels |-> FALSE]

\* Two callers of getRedisClient at once, against a store that may refuse
\* the connection.
ClientWorkload ==
  [procs |-> Procs, maxReq |-> MaxRequestsClient, maxTime |-> 0,
   bodies |-> [p \in Procs |-> {}],
   lines |-> {}, maxLines |-> 0,
   fetch |-> {}, reads |-> {},
   redis |-> {"ok", "fail"}, model |-> {TRUE}, lazy |-> FALSE, cancels |-> FALSE]

\* One browser page with the chat hook or with the suggestion hook.
HookWorkload ==
  [procs |-> {}, maxReq |-> 0, maxTime |-> 0,
   bodies |-> [p \in Procs |-> {}],
   lines |-> {}, maxLines |-> 0,
   fetch |-> {"ok", "fail"}, reads |-> {"eof", "error"},
   redis |-> {"ok"}, model |-> {TRUE}, lazy |-> FALSE, cancels |-> TRUE,
   hooks |-> {"chat", "suggestion"}]

Contexts == {"chat", "code"}

\* handleError called again and again, one call at a time.
RetryWorkload ==
  [procs |-> {1}, maxReq |-> MaxCalls, maxTime |-> 0,
   bodies |-> [p \in Procs |-> {}],
   lines |-> {}, maxLines |-> 0,
   fetch |-> {"ok", "fail"}, reads |-> {},
   redis |-> {"ok"}, model |-> {TRUE}, lazy |-> FALSE, cancels |-> FALSE]

\* handleError calls that overlap.
RetryConcWorkload == [RetryWorkload EXCEPT !.procs = Procs, !.maxReq = MaxCallsConc]

InitWith(w) ==
  /\ store = <<>>
  /\ now = 0
  /\ pc = [p \in Procs |-> "idle"]
  /\ req = [p \in Procs |-> NoBody]
  /\ lk = [p \in Procs |-> NoLookup]
  /\ sw = [p \in Procs |-> NoSweep]
  /\ up = [p \in Procs |-> NoUpstream]
  /\ acc = [p \in Procs |-> <<>>]
  /\ out = [p \in Procs |-> NoOut]
  /\ gh = [p \in Procs |-> NoGhost]
  /\ nreq = 0
  /\ wl = w
  /\ embedder = [loaded |-> FALSE, loads |-> 0]
  /\ expiry = <<>>
  /\ redisClient = NoClient
  /\ hook \in HooksOf(w)
  /\ retryAttempts = <<>>
  /\ he = [p \in Procs |-> NoCall]

Init == InitWith(SeqWorkload)
InitNamespace == InitWith(NamespaceWorkload)
InitStream == InitWith(StreamWorkload)
InitConc == InitWith(ConcWorkload)
InitRace == InitWith(RaceWorkload)
InitValidation == InitWith(ValidationWorkload)
InitFault == InitWith(FaultWorkload)
InitLoad == InitWith(LoadWorkload)
InitCancel == InitWith(CancelWorkload)
InitCorrupt == InitWith(CorruptWorkload)
InitExpiry == InitWith(ExpiryWorkload)
InitBest == InitWith(BestWorkload)
InitContext == InitWith(ContextWorkload)

InitHistory == InitWith(HistoryWorkload)

InitSimilarity == InitWith(SimilarityWorkload)

InitClient == InitWith(ClientWorkload)

InitHook == InitWith(HookWorkload)

InitRetry == InitWith(RetryWorkload)
InitRetryConc == InitWith(RetryConcWorkload)

\* --------------------------------------------------------------- actions

\* The clock moves. Only Date.now() reads it, in cacheSuggestion and in the
\* write-back of a hit, so it moves when a handler is about to read it. The
\* store drops the keys whose TTL ends.
Tick ==
  /\ now < wl.maxTime
  /\ \E p \in Procs : pc[p] \in {"write", "lookup_hit"}
  /\ now' = now + 1
  /\ store' = Del(store, Expired(expiry, now + 1))
  /\ expiry' = Del(expiry, Expired(expiry, now + 1))
  /\ UNCHANGED <<pc, req, lk, sw, up, acc, out, gh, nreq, wl, retryAttempts, he, hook, redisClient, embedder>>

\* The terminal event of a miss and the close of the stream. On a stream
\* the client has cancelled the enqueue throws and nothing is sent.
Finished(o) ==
  IF o.status = "cancelled" THEN o
  ELSE [status |-> "closed", events |-> Append(o.events, DoneEvent(FALSE))]

\* A lookup whose failure reaches the gateway: POST's catch answers 500.
LookupFailedThrowing(o) == [pc |-> "done", out |-> [status |-> "http500", events |-> <<>>]]

\* getCachedSuggestion's catch, lines 109-112: whatever threw inside, the
\* lookup returns null and the gateway goes on to generate.
LookupFailed(o) == [pc |-> "fetch", out |-> o]

\* getEmbedder when nothing else runs between its test and its
\* assignment: the model is loaded if it is not, and kept if it is.
getEmbedder(e) == IF e.loaded THEN e ELSE [loaded |-> TRUE, loads |-> e.loads + 1]

\* getCachedSuggestion, lines 55-64, from the embedding on: the context is
\* embedded and the keys of the pattern are listed; with no key the lookup
\* returns null and the gateway goes on to generate. A store that does
\* not list throws into the lookup's catch; a model that fails leaves the
\* zero vector as the query.
ListKeys(p, body, outcome, modelOk, ghost) ==
  IF outcome = "fail"
  THEN LET r == LookupFailed(NoOut)
       IN  /\ pc' = [pc EXCEPT ![p] = r.pc]
           /\ out' = [out EXCEPT ![p] = r.out]
           /\ lk' = [lk EXCEPT ![p] = NoLookup]
           /\ gh' = [gh EXCEPT ![p] = [ghost EXCEPT !.lookupFailed = TRUE,
                                                    !.embedFailed = ~modelOk]]
  ELSE LET input   == CacheInputOf(body)
           pattern == LookupPattern(input.language, input.framework)
           keys    == RedisKeys(pattern)
       IN  /\ lk' = [lk EXCEPT ![p] =
                       IF keys = {} THEN NoLookup
                       ELSE [q    |-> generateEmbedding(ContextOf(input), modelOk),
                             keys |-> keys,
                             best |-> NoBest]]
           /\ pc' = [pc EXCEPT ![p] = IF keys = {} THEN "fetch" ELSE "lookup_get"]
           /\ out' = [out EXCEPT ![p] = NoOut]
           /\ gh' = [gh EXCEPT ![p] = [ghost EXCEPT !.embedFailed = ~modelOk]]

\* POST of either gateway up to redis.keys in getCachedSuggestion (lines
\* 34-64). An invalid body is answered 400. A store that cannot be reached
\* throws into the lookup's catch before anything is embedded. Otherwise
\* getEmbedder is entered: where the load is a step of its own and the
\* model is not loaded, a load is started and awaited; else the embedding
\* and the listing follow at once.
Start(p) ==
  /\ pc[p] \in {"idle", "done"}
  /\ p \in wl.procs
  /\ nreq < wl.maxReq
  /\ \E body \in wl.bodies[p], client \in wl.redis, outcome \in wl.redis, modelOk \in wl.model :
       LET ghost == [NoGhost EXCEPT !.repeat = /\ pc[p] = "done"
                                               /\ req[p] = body
                                               /\ gh[p].writes > 0
                                               /\ up[p].ended = "done"
                                               /\ out[p].status = "closed"]
       IN
       /\ req' = [req EXCEPT ![p] = body]
       /\ IF InvalidBody(body)
          THEN /\ client = "ok" /\ outcome = "ok" /\ modelOk
               /\ pc' = [pc EXCEPT ![p] = "done"]
               /\ out' = [out EXCEPT ![p] = [status |-> "http400", events |-> <<>>]]
               /\ lk' = [lk EXCEPT ![p] = NoLookup]
               /\ gh' = [gh EXCEPT ![p] = ghost]
               /\ embedder' = embedder
          ELSE IF client = "fail"
          THEN LET r == LookupFailed(NoOut)
               IN  /\ outcome = "ok" /\ modelOk
                   /\ pc' = [pc EXCEPT ![p] = r.pc]
                   /\ out' = [out EXCEPT ![p] = r.out]
                   /\ lk' = [lk EXCEPT ![p] = NoLookup]
                   /\ gh' = [gh EXCEPT ![p] = [ghost EXCEPT !.lookupFailed = TRUE]]
                   /\ embedder' = embedder
          ELSE IF wl.lazy /\ ~embedder.loaded
          THEN /\ outcome = "ok" /\ modelOk
               /\ embedder' = [embedder EXCEPT !.loads = @ + 1]
               /\ pc' = [pc EXCEPT ![p] = "load"]
               /\ out' = [out EXCEPT ![p] = NoOut]
               /\ lk' = [lk EXCEPT ![p] = NoLookup]
               /\ gh' = [gh EXCEPT ![p] = ghost]
          ELSE /\ embedder' = getEmbedder(embedder)
               /\ ListKeys(p, body, outcome, modelOk, ghost)
  /\ nreq' = nreq + 1
  /\ sw' = [sw EXCEPT ![p] = NoSweep]
  /\ up' = [up EXCEPT ![p] = NoUpstream]
  /\ acc' = [acc EXCEPT ![p] = <<>>]
  /\ UNCHANGED <<store, expiry, now, wl, retryAttempts, he, hook, redisClient>>

\* getEmbedder, line 10, when the awaited load resolves: the model is
\* assigned, and getCachedSuggestion goes on to embed and to list.
Loaded(p) ==
  /\ pc[p] = "load"
  /\ embedder' = [embedder EXCEPT !.loaded = TRUE]
  /\ \E outcome \in wl.redis, modelOk \in wl.model :
       ListKeys(p, req[p], outcome, modelOk, gh[p])
  /\ UNCHANGED <<store, expiry, now, req, sw, up, acc, nreq, wl, retryAttempts, he, hook, redisClient>>

\* A loop that keeps the last entry above the threshold.
BetterMatchLast(best, key, similarity, entry) ==
  IF ExceedsThreshold(similarity)
  THEN [found |-> TRUE, key |-> key, similarity |-> similarity, entry |-> entry]
  ELSE best

\* getCachedSuggestion, lines 79-82: the best match after one more entry.
BetterMatch(best, key, similarity, entry) ==
  IF ExceedsThreshold(similarity) /\ (~best.found \/ SimGreater(similarity, best.similarity))
  THEN [found |-> TRUE, key |-> key, similarity |-> similarity, entry |-> entry]
  ELSE best

\* getCachedSuggestion, lines 71-86: one turn of the loop over the keys,
\* in whatever order the store listed them. A key that is gone or does not
\* parse is passed over. After the last key with no match the lookup
\* returns null. A redis.get that throws ends the lookup in its catch.
LookupGet(p) ==
  /\ pc[p] = "lookup_get"
  /\ \E key \in lk[p].keys, outcome \in wl.redis :
       IF outcome = "fail"
       THEN LET r == LookupFailed(out[p])
            IN  /\ pc' = [pc EXCEPT ![p] = r.pc]
                /\ out' = [out EXCEPT ![p] = r.out]
                /\ lk' = lk
                /\ gh' = [gh EXCEPT ![p].lookupFailed = TRUE]
       ELSE
       LET cachedData == IF key \in DOMAIN store THEN store[key] ELSE [parses |-> FALSE]
           present    == key \in DOMAIN store /\ JSONParses(cachedData)
           best       == IF present
                         THEN LET entry == JSONParse(cachedData)
                              IN  BetterMatch(lk[p].best, key,
                                              calculateSimilarity(lk[p].q, entry.embedding), entry)
                         ELSE lk[p].best
           rest       == lk[p].keys \ {key}
       IN  /\ lk' = [lk EXCEPT ![p] = IF rest = {} /\ ~best.found THEN NoLookup
                                      ELSE [@ EXCEPT !.keys = rest, !.best = best]]
           /\ pc' = [pc EXCEPT ![p] = IF rest # {} THEN "lookup_get"
                                      ELSE IF best.found THEN "lookup_hit" ELSE "fetch"]
           /\ UNCHANGED <<out, gh>>
  /\ UNCHANGED <<store, expiry, now, req, sw, up, acc, nreq, wl, retryAttempts, he, hook, redisClient, embedder>>

\* A write-back that counts the hit and keeps the old timestamp.
HitEntryKeepingTime(entry, time) == [entry EXCEPT !.hitCount = @ + 1]

\* A write-back that refreshes the timestamp and does not count the hit.
HitEntryUncounted(entry, time) == [entry EXCEPT !.timestamp = time]

\* getCachedSuggestion, lines 88-97: the entry as the hit writes it back.
HitEntry(entry, time) == [entry EXCEPT !.hitCount = @ + 1, !.timestamp = time]

\* A replay that leaves the terminal event unmarked.
ReplayUnmarked(suggestion) == <<ChunkEvent(suggestion, FALSE, TRUE), DoneEvent(FALSE)>>

\* The gateways' cache-hit branch (route.ts 285-321, part_007 74-119): the
\* whole suggestion as one chunk, then the terminal event, both cached.
Replay(suggestion) == <<ChunkEvent(suggestion, FALSE, TRUE), DoneEvent(TRUE)>>

\* getCachedSuggestion, lines 88-103, and the gateway's cache-hit branch:
\* hitCount + 1 and a fresh timestamp are written under the best match's
\* key, and a suggestion that is not empty is replayed as one chunk event
\* and the terminal event, both cached. A write-back that throws ends the
\* lookup in its catch, match or no match.
LookupHit(p) ==
  /\ pc[p] = "lookup_hit"
  /\ \E outcome \in wl.redis :
       IF outcome = "fail"
       THEN LET r == LookupFailed(out[p])
            IN  /\ pc' = [pc EXCEPT ![p] = r.pc]
                /\ out' = [out EXCEPT ![p] = r.out]
                /\ UNCHANGED <<store, expiry>>
                /\ gh' = [gh EXCEPT ![p].lookupFailed = TRUE]
       ELSE
       LET best       == lk[p].best
           suggestion == best.entry.suggestion
       IN  /\ store' = SetEx(store, best.key, JSONStringify(HitEntry(best.entry, now)))
           /\ expiry' = Expiring(expiry, best.key, CACHE_TTL, now)
           /\ IF suggestion # <<>>
              THEN /\ out' = [out EXCEPT ![p] =
                                [status |-> "closed", events |-> Replay(suggestion)]]
                   /\ pc' = [pc EXCEPT ![p] = "done"]
              ELSE /\ pc' = [pc EXCEPT ![p] = "fetch"]
                   /\ out' = out
           /\ gh' = [gh EXCEPT ![p].hit = TRUE]
  /\ UNCHANGED <<now, req, lk, sw, up, acc, nreq, wl, retryAttempts, he, hook, redisClient, embedder>>

\* The catch of the stream's start(): the code gateway errors the stream
\* (controller.error), the chat gateway enqueues an event with the error
\* and done: true and closes. A cancelled stream takes neither.
ErrorOut(kind, o) ==
  IF o.status = "cancelled" THEN o
  ELSE IF kind = "code"
  THEN [o EXCEPT !.status = "errored"]
  ELSE [status |-> "closed", events |-> Append(o.events, ErrorEvent)]

\* The stream as the client holds it once the response is returned.
Opened(o) == IF o.status = "cancelled" THEN o ELSE [status |-> "open", events |-> <<>>]

\* The miss branch up to the first read: the stream is handed to the
\* client and the generation backend is called. A rejected fetch, a status
\* that is not OK and a missing reader all throw.
Fetch(p) ==
  /\ pc[p] = "fetch"
  /\ \E outcome \in wl.fetch :
       IF outcome = "ok"
       THEN /\ pc' = [pc EXCEPT ![p] = "relay"]
            /\ out' = [out EXCEPT ![p] = Opened(@)]
            /\ up' = up
       ELSE /\ pc' = [pc EXCEPT ![p] = "done"]
            /\ out' = [out EXCEPT ![p] = ErrorOut(req[p].kind, Opened(@))]
            /\ up' = [up EXCEPT ![p].ended = "refused"]
  /\ gh' = [gh EXCEPT ![p].fetches = @ + 1]
  /\ UNCHANGED <<store, expiry, now, req, lk, sw, acc, nreq, wl, retryAttempts, he, hook, redisClient, embedder>>

\* A relay that keeps the text of a line it could not parse.
RelayedKeepingRaw(kind, line, isFirstChunk) ==
  IF ~line.parses THEN [add |-> <<"?">>, emit |-> <<>>, first |-> isFirstChunk]
  ELSE IF line.response = <<>> THEN [add |-> <<>>, emit |-> <<>>, first |-> isFirstChunk]
  ELSE IF kind = "code" THEN FilterChunk(line.response, isFirstChunk)
  ELSE [add |-> line.response, emit |-> line.response, first |-> isFirstChunk]

\* What one line adds: the text accumulated, the text relayed and the new
\* isFirstChunk. A line that does not parse or has no response adds
\* nothing; the chat gateway relays every other response, the code gateway
\* filters it.
Relayed(kind, line, isFirstChunk) ==
  IF ~line.parses \/ line.response = <<>>
  THEN [add |-> <<>>, emit |-> <<>>, first |-> isFirstChunk]
  ELSE IF kind = "code" THEN FilterChunk(line.response, isFirstChunk)
  ELSE [add |-> line.response, emit |-> line.response, first |-> isFirstChunk]

\* A commit step that takes any text, blank or not.
CachesAnyText(full) == full # <<>>

\* After the relay loop (route.ts 452-475, part_007 230-237) and at a done
\* line of the chat gateway (part_007 193-201): is there text, not blank,
\* to hand to cacheSuggestion?
CachesAfterRelay(full) == Trim(full) # <<>>

\* After the chat gateway's done block has thrown on a cancelled stream
\* (part_007 207-221, inside the line's try): the throw is swallowed with
\* the line and the loop reads on, unless the body had already ended.
Resumes(kind, o, u) == o.status = "cancelled" /\ kind = "chat" /\ ~u.eof

\* Where the gateway stands once the commit step is over, or was not
\* needed: the terminal event is sent and the stream closed, or the loop
\* resumes.
CommitReturned(o, resumes) ==
  IF resumes THEN [pc |-> "relay", out |-> o] ELSE [pc |-> "done", out |-> Finished(o)]

\* One reader.read() of the relay loop. A line is parsed, filtered,
\* accumulated and relayed with the line's own done flag; the chat gateway
\* stops at a line with done: true. The end of the body leaves the loop.
\* Leaving the loop, text goes to cacheSuggestion, and without text the
\* terminal event is sent at once. A failed read throws. On a cancelled
\* stream the text is accumulated all the same, the enqueue throws into
\* the line's catch and the loop goes on.
Read(p) ==
  /\ pc[p] = "relay"
  /\ \E outcome \in wl.reads :
       \/ /\ outcome = "line"
          /\ up[p].n < wl.maxLines
          /\ \E line \in wl.lines :
               LET r         == Relayed(req[p].kind, line, up[p].first)
                   full      == acc[p] \o r.add
                   cancelled == out[p].status = "cancelled"
                   stops     == /\ req[p].kind = "chat" /\ line.parses /\ line.done
                                /\ ~(cancelled /\ r.emit # <<>>)
                   events    == IF r.emit # <<>> /\ ~cancelled
                                THEN Append(out[p].events, ChunkEvent(r.emit, line.done, FALSE))
                                ELSE out[p].events
                   after     == CommitReturned([out[p] EXCEPT !.events = events],
                                               Resumes(req[p].kind, out[p], up[p]))
               IN  /\ acc' = [acc EXCEPT ![p] = full]
                   /\ up' = [up EXCEPT ![p] =
                               [@ EXCEPT
                                  !.n       = @ + 1,
                                  !.first   = r.first,
                                  !.skipped = IF ~line.parses /\ @ = 0 THEN up[p].n + 1 ELSE @,
                                  !.ended   = IF line.parses /\ line.done THEN "done" ELSE @]]
                   /\ IF stops /\ ~CachesAfterRelay(full)
                      THEN /\ out' = [out EXCEPT ![p] = after.out]
                           /\ pc' = [pc EXCEPT ![p] = after.pc]
                      ELSE /\ out' = [out EXCEPT ![p].events = events]
                           /\ pc' = [pc EXCEPT ![p] = IF stops THEN "write" ELSE "relay"]
       \/ /\ outcome = "eof"
          /\ up' = [up EXCEPT ![p].ended = IF @ = "done" THEN "done" ELSE "eof",
                              ![p].eof = TRUE]
          /\ IF CachesAfterRelay(acc[p])
             THEN /\ pc' = [pc EXCEPT ![p] = "write"]
                  /\ out' = out
             ELSE /\ pc' = [pc EXCEPT ![p] = "done"]
                  /\ out' = [out EXCEPT ![p] = Finished(@)]
          /\ acc' = acc
       \/ /\ outcome = "error"
          /\ up' = [up EXCEPT ![p].ended = "error"]
          /\ out' = [out EXCEPT ![p] = ErrorOut(req[p].kind, @)]
          /\ pc' = [pc EXCEPT ![p] = "done"]
          /\ acc' = acc
  /\ UNCHANGED <<store, expiry, now, req, lk, sw, gh, nreq, wl, retryAttempts, he, hook, redisClient, embedder>>

\* cacheSuggestion, lines 140-150: the new entry.
NewEntry(input, suggestion, time, modelOk) ==
  [id         |-> generateCacheId(input, time),
   context    |-> ContextOf(input),
   embedding  |-> generateEmbedding(ContextOf(input), modelOk),
   suggestion |-> Trim(suggestion),
   language   |-> input.language,
   framework  |-> input.framework,
   timestamp  |-> time,
   hitCount   |-> 0]

\* A commit whose failure reaches the gateway's catch.
WriteFailedThrowing(kind, o, resumes) == [pc |-> "done", out |-> ErrorOut(kind, o)]

\* cacheSuggestion's catch (lines 161-163) and cleanupOldEntries' catch
\* (lines 229-231): the failure is logged, cacheSuggestion returns and the
\* gateway goes on as after a commit that worked.
WriteFailed(kind, o, resumes) == CommitReturned(o, resumes)

\* cacheSuggestion, lines 117-154: the entry is built and stored under its
\* key; the sweep follows. A store that cannot be reached or does not
\* store throws into cacheSuggestion's catch; a model that fails leaves the
\* zero vector in the entry.
Write(p) ==
  /\ pc[p] = "write"
  /\ \E outcome \in wl.redis, modelOk \in wl.model :
       IF outcome = "fail"
       THEN LET r == WriteFailed(req[p].kind, out[p], Resumes(req[p].kind, out[p], up[p]))
            IN  /\ modelOk
                /\ pc' = [pc EXCEPT ![p] = r.pc]
                /\ out' = [out EXCEPT ![p] = r.out]
                /\ UNCHANGED <<store, expiry>>
                /\ gh' = [gh EXCEPT ![p].writes = @ + 1, ![p].writeFailed = TRUE,
                                    ![p].lateWrite = @ \/ out[p].status = "cancelled"]
                /\ embedder' \in {embedder, getEmbedder(embedder)}
       ELSE LET input == CacheInputOf(req[p])
                entry == NewEntry(input, SuggestionToCache(req[p].kind, acc[p]), now, modelOk)
                key   == EntryKey(input.language, input.framework, entry.id)
            IN  /\ store' = SetEx(store, key, JSONStringify(entry))
                /\ expiry' = Expiring(expiry, key, CACHE_TTL, now)
                /\ gh' = [gh EXCEPT ![p].writes = @ + 1,
                                    ![p].lateWrite = @ \/ out[p].status = "cancelled"]
                /\ pc' = [pc EXCEPT ![p] = "sweep_keys"]
                /\ out' = out
                /\ embedder' = getEmbedder(embedder)
  /\ UNCHANGED <<now, req, lk, sw, up, acc, nreq, wl, retryAttempts, he, hook, redisClient>>

\* cleanupOldEntries, lines 188-190: all keys; with at most MAX_CACHE_SIZE
\* of them the sweep returns, cacheSuggestion returns and the gateway sends
\* the terminal event. A listing that throws ends the sweep in its catch.
SweepKeys(p) ==
  /\ pc[p] = "sweep_keys"
  /\ \E outcome \in wl.redis :
       IF outcome = "fail"
       THEN LET r == WriteFailed(req[p].kind, out[p], Resumes(req[p].kind, out[p], up[p]))
            IN  /\ pc' = [pc EXCEPT ![p] = r.pc]
                /\ out' = [out EXCEPT ![p] = r.out]
                /\ sw' = sw
                /\ gh' = [gh EXCEPT ![p].writeFailed = TRUE]
       ELSE
       LET allKeys == RedisKeys(AllPattern)
           after   == CommitReturned(out[p], Resumes(req[p].kind, out[p], up[p]))
       IN  /\ IF Cardinality(allKeys) <= MAX_CACHE_SIZE
              THEN /\ pc' = [pc EXCEPT ![p] = after.pc]
                   /\ out' = [out EXCEPT ![p] = after.out]
                   /\ sw' = sw
              ELSE /\ pc' = [pc EXCEPT ![p] = "sweep_get"]
                   /\ sw' = [sw EXCEPT ![p] = [NoSweep EXCEPT !.keys = allKeys, !.ran = TRUE]]
                   /\ out' = out
           /\ gh' = gh
  /\ UNCHANGED <<store, expiry, now, req, lk, up, acc, nreq, wl, retryAttempts, he, hook, redisClient, embedder>>

\* A sweep that passes over what it cannot parse, as the stats do.
SweepReadSkipping(st, entries, key) ==
  [store   |-> st,
   entries |-> IF key \in DOMAIN st /\ JSONParses(st[key])
               THEN Append(entries, [key       |-> key,
                                     timestamp |-> JSONParse(st[key]).timestamp,
                                     hitCount  |-> JSONParse(st[key]).hitCount])
               ELSE entries]

\* cleanupOldEntries, lines 198-211: what reading one key does to the
\* store and to the list of entries to rank.
SweepRead(st, entries, key) ==
  IF key \in DOMAIN st /\ JSONParses(st[key])
  THEN [store   |-> st,
        entries |-> Append(entries, [key       |-> key,
                                     timestamp |-> JSONParse(st[key]).timestamp,
                                     hitCount  |-> JSONParse(st[key]).hitCount])]
  ELSE [store   |-> IF key \in DOMAIN st THEN Del(st, {key}) ELSE st,
        entries |-> entries]

\* cleanupOldEntries, lines 197-212: one turn of the loop over the keys. A
\* readable entry is listed with its timestamp and hitCount, one that does
\* not parse is deleted, one that is gone is passed over. A redis.get that
\* throws ends the sweep in its catch.
SweepGet(p) ==
  /\ pc[p] = "sweep_get"
  /\ \E key \in sw[p].keys, outcome \in wl.redis :
       IF outcome = "fail"
       THEN LET r == WriteFailed(req[p].kind, out[p], Resumes(req[p].kind, out[p], up[p]))
            IN  /\ pc' = [pc EXCEPT ![p] = r.pc]
                /\ out' = [out EXCEPT ![p] = r.out]
                /\ UNCHANGED <<sw, store, expiry>>
                /\ gh' = [gh EXCEPT ![p].writeFailed = TRUE]
       ELSE
       LET r    == SweepRead(store, sw[p].entries, key)
           rest == sw[p].keys \ {key}
       IN  /\ sw' = [sw EXCEPT ![p].keys = rest, ![p].entries = r.entries]
           /\ store' = r.store
           /\ expiry' = Del(expiry, DOMAIN expiry \ DOMAIN r.store)
           /\ pc' = [pc EXCEPT ![p] = IF rest = {} THEN "sweep_del" ELSE "sweep_get"]
           /\ UNCHANGED <<out, gh>>
  /\ UNCHANGED <<now, req, lk, up, acc, nreq, wl, retryAttempts, he, hook, redisClient, embedder>>

\* A comparator by age alone: least recently touched first.
CompareEntriesByAge(a, b) == a.timestamp - b.timestamp

\* A comparator by hits alone.
CompareEntriesByHits(a, b) == a.hitCount - b.hitCount

\* cleanupOldEntries, lines 215-220: the comparator, negative when a sorts
\* before b.
CompareEntries(a, b) ==
  IF a.hitCount # b.hitCount THEN a.hitCount - b.hitCount ELSE a.timestamp - b.timestamp

RECURSIVE InsertSorted(_, _)
\* e goes behind every element that does not sort after it: the sort is
\* stable.
InsertSorted(sorted, e) ==
  IF sorted = <<>> THEN <<e>>
  ELSE IF CompareEntries(Head(sorted), e) <= 0
       THEN <<Head(sorted)>> \o InsertSorted(Tail(sorted), e)
       ELSE <<e>> \o sorted

RECURSIVE SortEntries(_)
\* entries.sort(comparator)
SortEntries(entries) ==
  IF entries = <<>> THEN <<>>
  ELSE InsertSorted(SortEntries(SubSeq(entries, 1, Len(entries) - 1)), entries[Len(entries)])

\* cleanupOldEntries, line 223:
\* entries.slice(0, entries.length - MAX_CACHE_SIZE + 100)
ToDelete(entries) ==
  Slice(SortEntries(entries), 0, Len(entries) - MAX_CACHE_SIZE + CLEANUP_MARGIN)

\* cleanupOldEntries, lines 215-227: sort, slice, delete; then
\* cacheSuggestion returns and the gateway sends the terminal event. A
\* redis.del that throws ends the sweep in its catch with nothing deleted.
SweepDel(p) ==
  /\ pc[p] = "sweep_del"
  /\ \E outcome \in wl.redis :
       IF outcome = "fail"
       THEN LET r == WriteFailed(req[p].kind, out[p], Resumes(req[p].kind, out[p], up[p]))
            IN  /\ pc' = [pc EXCEPT ![p] = r.pc]
                /\ out' = [out EXCEPT ![p] = r.out]
                /\ UNCHANGED <<sw, store, expiry>>
                /\ gh' = [gh EXCEPT ![p].writeFailed = TRUE]
       ELSE
       LET toDelete == ToDelete(sw[p].entries)
           after    == CommitReturned(out[p], Resumes(req[p].kind, out[p], up[p]))
       IN  /\ store' = Del(store, {toDelete[i].key : i \in 1..Len(toDelete)})
           /\ expiry' = Del(expiry, {toDelete[i].key : i \in 1..Len(toDelete)})
           /\ sw' = [sw EXCEPT ![p].deleted = toDelete]
           /\ pc' = [pc EXCEPT ![p] = after.pc]
           /\ out' = [out EXCEPT ![p] = after.out]
           /\ gh' = gh
  /\ UNCHANGED <<now, req, lk, up, acc, nreq, wl, retryAttempts, he, hook, redisClient, embedder>>

\* The client cancels the response of a miss while it is generated.
\* Neither gateway gives its stream a cancel() or passes a signal to the
\* fetch: the stream is closed to the client, and start() runs on.
Cancel(p) ==
  /\ wl.cancels
  /\ pc[p] \in {"fetch", "relay", "write", "sweep_keys", "sweep_get", "sweep_del"}
  /\ out[p].status \in {"none", "open"}
  /\ out' = [out EXCEPT ![p].status = "cancelled"]
  /\ UNCHANGED <<store, expiry, now, pc, req, lk, sw, up, acc, gh, nreq, wl, retryAttempts, he, hook, redisClient, embedder>>

\* A stats loop that deletes what it cannot parse, as the sweep does.
StatsReadDeleting(st, stats, key) ==
  [store |-> IF key \in DOMAIN st /\ ~JSONParses(st[key]) THEN Del(st, {key}) ELSE st,
   stats |-> stats]

\* getCacheStats, lines 251-267: one turn of the loop over the keys. A
\* readable entry is counted under its language and widens the span of
\* timestamps; one that is gone or does not parse is skipped.
StatsRead(st, stats, key) ==
  IF key \in DOMAIN st /\ JSONParses(st[key])
  THEN LET entry == JSONParse(st[key])
           byLang == stats.entriesByLanguage
       IN  [store |-> st,
            stats |-> [stats EXCEPT
                         !.entriesByLanguage =
                           IF entry.language \in DOMAIN byLang
                           THEN [byLang EXCEPT ![entry.language] = @ + 1]
                           ELSE byLang @@ (entry.language :> 1),
                         !.oldestEntry = Min2(@, entry.timestamp),
                         !.newestEntry = Max2(@, entry.timestamp)]]
  ELSE [store |-> st, stats |-> stats]

RECURSIVE StatsLoop(_, _, _)
\* getCacheStats, lines 251-268: the loop over the listed keys.
StatsLoop(st, stats, keys) ==
  IF keys = <<>> THEN [store |-> st, stats |-> stats]
  ELSE LET r == StatsRead(st, stats, Head(keys))
       IN  StatsLoop(r.store, r.stats, Tail(keys))

\* getCacheStats' catch, lines 271-279.
NoStats == [totalEntries |-> 0, entriesByLanguage |-> <<>>, oldestEntry |-> 0, newestEntry |-> 0]

\* GET of the cache-stats endpoint (part_008) with getCacheStats: the keys
\* of the prefix are listed and read one by one, and the counts are
\* answered; a store that fails gives the zero answer.
GetCacheStats(p) ==
  /\ pc[p] \in {"idle", "done"}
  /\ p \in wl.procs
  /\ nreq < wl.maxReq
  /\ \E outcome \in wl.redis :
       LET allKeys == RedisKeys(AllPattern)
           r == IF outcome = "fail" THEN [store |-> store, stats |-> NoStats]
                ELSE StatsLoop(store,
                               [NoStats EXCEPT !.totalEntries = Cardinality(allKeys),
                                               !.oldestEntry = now],
                               CHOOSE keys \in SetToSeqs(allKeys) : TRUE)
       IN  /\ store' = r.store
           /\ expiry' = Del(expiry, DOMAIN expiry \ DOMAIN r.store)
           /\ out' = [out EXCEPT ![p] = [status |-> "stats", events |-> <<>>, stats |-> r.stats]]
  /\ pc' = [pc EXCEPT ![p] = "done"]
  /\ nreq' = nreq + 1
  /\ gh' = [gh EXCEPT ![p] = NoGhost]
  /\ lk' = [lk EXCEPT ![p] = NoLookup]
  /\ sw' = [sw EXCEPT ![p] = NoSweep]
  /\ up' = [up EXCEPT ![p] = NoUpstream]
  /\ acc' = [acc EXCEPT ![p] = <<>>]
  /\ UNCHANGED <<now, req, wl, retryAttempts, he, hook, redisClient, embedder>>

\* Something outside the gateways leaves under a key of the store a value
\* that does not parse.
Corrupt(k) ==
  /\ k \in DOMAIN store
  /\ JSONParses(store[k])
  /\ store' = [store EXCEPT ![k] = [parses |-> FALSE]]
  /\ expiry' = expiry
  /\ UNCHANGED <<now, pc, req, lk, sw, up, acc, out, gh, nreq, wl, retryAttempts, he, hook, redisClient, embedder>>

Next ==
  \/ Tick
  \/ \E p \in Procs :
       \/ Start(p)
       \/ LookupGet(p)
       \/ LookupHit(p)
       \/ Fetch(p)
       \/ Read(p)
       \/ Write(p)
       \/ SweepKeys(p)
       \/ SweepGet(p)
       \/ SweepDel(p)

Spec == Init /\ [][Next]_vars
SpecNamespace == InitNamespace /\ [][Next]_vars
SpecStream == InitStream /\ [][Next]_vars
SpecConc == InitConc /\ [][Next]_vars
SpecRace == InitRace /\ [][Next]_vars
SpecValidation == InitValidation /\ [][Next]_vars
SpecFault == InitFault /\ [][Next]_vars
SpecExpiry == InitExpiry /\ [][Next]_vars
SpecBest == InitBest /\ [][Next]_vars

\* The same handlers, the model's load being a step of its own.
NextLoad ==
  \/ Next
  \/ \E p \in Procs : Loaded(p)

SpecLoad == InitLoad /\ [][NextLoad]_vars

\* The same handlers with the stats endpoint, over a store in which
\* values may be corrupted.
NextCorrupt ==
  \/ Next
  \/ \E p \in Procs : GetCacheStats(p)
  \/ \E k \in DOMAIN store : Corrupt(k)

SpecCorrupt == InitCorrupt /\ [][NextCorrupt]_vars

\* A request that finds the store empty: its context is built for the
\* lookup and again for the entry it caches.
NextContext ==
  \/ Tick
  \/ \E p \in Procs :
       \/ Start(p)
       \/ Fetch(p)
       \/ Read(p)
       \/ Write(p)
       \/ SweepKeys(p)

SpecContext == InitContext /\ [][NextContext]_vars

SpecHistory == InitHistory /\ [][NextContext]_vars

\* semantic-cache.ts getCachedSuggestion, one turn of the loop over the
\* keys: the similarity of the query to a stored embedding and the test
\* against the threshold.
Compare(p) ==
  /\ pc[p] \in {"idle", "done"}
  /\ p \in wl.procs
  /\ nreq < wl.maxReq
  /\ \E queryEmbedding \in Vectors, embedding \in Vectors :
       LET similarity == calculateSimilarity(queryEmbedding, embedding)
       IN  out' = [out EXCEPT ![p] = [status |-> "similarity", events |-> <<>>,
                                      embedding1 |-> queryEmbedding,
                                      embedding2 |-> embedding,
                                      similarity |-> similarity,
                                      qualifies |-> ExceedsThreshold(similarity)]]
  /\ pc' = [pc EXCEPT ![p] = "done"]
  /\ nreq' = nreq + 1
  /\ UNCHANGED <<store, expiry, now, req, lk, sw, up, acc, gh, wl, retryAttempts, he, hook, redisClient, embedder>>

NextSimilarity == \E p \in Procs : Compare(p)

SpecSimilarity == InitSimilarity /\ [][NextSimilarity]_vars

\* redis-client getRedisClient up to its await: with redisClient null the
\* client is created and assigned and its connect is awaited; with
\* redisClient assigned the caller gets it at once.
getRedisClient(p) ==
  /\ pc[p] \in {"idle", "done"}
  /\ p \in wl.procs
  /\ nreq < wl.maxReq
  /\ nreq' = nreq + 1
  /\ IF ~redisClient.assigned
     THEN /\ redisClient' = [assigned |-> TRUE, connected |-> FALSE,
                             created |-> redisClient.created + 1]
          /\ pc' = [pc EXCEPT ![p] = "connect"]
          /\ out' = [out EXCEPT ![p] = NoOut]
     ELSE /\ redisClient' = redisClient
          /\ pc' = [pc EXCEPT ![p] = "keys"]
          /\ out' = [out EXCEPT ![p] = [status |-> "client", events |-> <<>>,
                                        connected |-> redisClient.connected]]
  /\ UNCHANGED <<store, expiry, now, req, lk, sw, up, acc, gh, wl, retryAttempts, he, hook, embedder>>

\* redis-client getRedisClient after await redisClient.connect(): the
\* caller gets the connected client, or the rejection of connect leaves
\* the caller with the error and redisClient assigned.
Connect(p) ==
  /\ pc[p] = "connect"
  /\ \E outcome \in wl.redis :
       IF outcome = "fail"
       THEN /\ redisClient' = redisClient
            /\ out' = [out EXCEPT ![p] = [status |-> "client_error", events |-> <<>>]]
            /\ pc' = [pc EXCEPT ![p] = "done"]
       ELSE /\ redisClient' = [redisClient EXCEPT !.connected = TRUE]
            /\ out' = [out EXCEPT ![p] = [status |-> "client", events |-> <<>>,
                                          connected |-> TRUE]]
            /\ pc' = [pc EXCEPT ![p] = "keys"]
  /\ UNCHANGED <<store, expiry, now, req, lk, sw, up, acc, gh, nreq, wl, retryAttempts, he, hook, embedder>>

\* semantic-cache.ts getCachedSuggestion, line 59: the caller's first
\* command on the client it got. On a connected client the store answers
\* or fails; on a client whose connect has not completed the command
\* waits in the client's queue or is rejected.
Keys(p) ==
  /\ pc[p] = "keys"
  /\ \E outcome \in wl.redis :
       out' = [out EXCEPT ![p].status =
                 IF outcome = "fail" THEN "keys_error"
                 ELSE IF redisClient.connected THEN "listed" ELSE "queued"]
  /\ pc' = [pc EXCEPT ![p] = "done"]
  /\ UNCHANGED <<store, expiry, now, req, lk, sw, up, acc, gh, nreq, wl, retryAttempts, he, hook, redisClient, embedder>>

NextClient == \E p \in Procs : getRedisClient(p) \/ Connect(p) \/ Keys(p)

SpecClient == InitClient /\ [][NextClient]_vars

\* abortControllerRef.current.abort() and readerRef.current.cancel() on
\* the request a ref points to (0: the ref is null).
Abort(requests, ref) ==
  IF ref = 0 THEN requests ELSE [requests EXCEPT ![ref].aborted = TRUE]

CancelReader(requests, ref) ==
  IF ref = 0 THEN requests ELSE [requests EXCEPT ![ref].cancelled = TRUE]

\* cancelStream of either hook: abort through the controller ref, cancel
\* through the reader ref, null both, and reset the flags of the state.
\* The messages are left as they are.
CancelStreamOf(h) ==
  [h EXCEPT !.requests = CancelReader(Abort(@, h.abortControllerRef), h.readerRef),
            !.abortControllerRef = 0,
            !.readerRef = 0,
            !.isLoading = FALSE,
            !.isStreaming = FALSE,
            !.currentStreamingMessageId = 0]

\* The finally of a request: both refs are nulled, whichever request
\* they point to.
Finally(h) == [h EXCEPT !.abortControllerRef = 0, !.readerRef = 0]

NewRequest == [pc |-> "fetch", aborted |-> FALSE, cancelled |-> FALSE]

\* The user calls cancelStream.
cancelStream ==
  /\ hook.kind # "none"
  /\ hook' = CancelStreamOf(hook)
  /\ UNCHANGED <<store, expiry, now, pc, req, lk, sw, up, acc, out, gh, nreq, wl, retryAttempts, he, redisClient, embedder>>

\* useStreamingChat sendMessage up to its await fetch: cancelStream, the
\* user message, the assistant placeholder marked isStreaming, a new
\* controller in the ref, and the request is sent.
sendMessage ==
  /\ hook.kind = "chat"
  /\ Len(hook.requests) < MaxSends
  /\ LET h  == CancelStreamOf(hook)
         id == Len(h.requests) + 1
     IN  hook' = [h EXCEPT !.messages = @ @@ (id :> TRUE),
                           !.isLoading = TRUE,
                           !.currentStreamingMessageId = id,
                           !.abortControllerRef = id,
                           !.requests = Append(@, NewRequest)]
  /\ UNCHANGED <<store, expiry, now, pc, req, lk, sw, up, acc, out, gh, nreq, wl, retryAttempts, he, redisClient, embedder>>

\* useStreamingAISuggestions fetchSuggestion up to its await fetch: the
\* controller in the ref is aborted, a new one replaces it, the state is
\* loading, and the request is sent.
fetchSuggestion ==
  /\ hook.kind = "suggestion"
  /\ Len(hook.requests) < MaxSends
  /\ LET id == Len(hook.requests) + 1
     IN  hook' = [hook EXCEPT !.requests = Append(Abort(@, hook.abortControllerRef), NewRequest),
                              !.abortControllerRef = id,
                              !.isLoading = TRUE,
                              !.isStreaming = FALSE]
  /\ UNCHANGED <<store, expiry, now, pc, req, lk, sw, up, acc, out, gh, nreq, wl, retryAttempts, he, redisClient, embedder>>

\* The catch of a request for an error that is not an AbortError: the
\* flags are reset, and the chat hook drops the assistant placeholder.
FailedOf(h, id) ==
  [h EXCEPT !.isLoading = FALSE,
            !.isStreaming = FALSE,
            !.currentStreamingMessageId = 0,
            !.messages = [m \in DOMAIN @ \ {id} |-> @[m]]]

\* The stream of a request is done: streaming ends and the chat hook
\* clears the flag of the request's own message.
DoneOf(h, id) ==
  [h EXCEPT !.isStreaming = FALSE,
            !.currentStreamingMessageId = 0,
            !.messages = [m \in DOMAIN @ |-> IF m = id THEN FALSE ELSE @[m]]]

Ended(h, id) == Finally([h EXCEPT !.requests[id].pc = "ended"])

\* await fetch settles for request id. An aborted request rejects with an
\* AbortError: the catch returns and the finally runs. Otherwise the
\* response arrives, the state is streaming and the reader goes into its
\* ref; or the request fails.
Responds(id) ==
  /\ id \in DOMAIN hook.requests
  /\ hook.requests[id].pc = "fetch"
  /\ IF hook.requests[id].aborted
     THEN hook' = Ended(hook, id)
     ELSE \E outcome \in wl.fetch :
            IF outcome = "fail"
            THEN hook' = Ended(FailedOf(hook, id), id)
            ELSE hook' = [hook EXCEPT !.isLoading = FALSE,
                                      !.isStreaming = TRUE,
                                      !.readerRef = id,
                                      !.requests[id].pc = "read"]
  /\ UNCHANGED <<store, expiry, now, pc, req, lk, sw, up, acc, out, gh, nreq, wl, retryAttempts, he, redisClient, embedder>>

\* await reader.read() settles for request id with the end of the stream
\* or an error. The read of an aborted request rejects with an
\* AbortError; the read of a cancelled reader resolves done.
ReadsEnd(id) ==
  /\ id \in DOMAIN hook.requests
  /\ hook.requests[id].pc = "read"
  /\ IF hook.requests[id].aborted
     THEN hook' = Ended(hook, id)
     ELSE IF hook.requests[id].cancelled
     THEN hook' = Ended(DoneOf(hook, id), id)
     ELSE \E outcome \in wl.reads :
            IF outcome = "error"
            THEN hook' = Ended(FailedOf(hook, id), id)
            ELSE hook' = Ended(DoneOf(hook, id), id)
  /\ UNCHANGED <<store, expiry, now, pc, req, lk, sw, up, acc, out, gh, nreq, wl, retryAttempts, he, redisClient, embedder>>

NextHook ==
  \/ cancelStream
  \/ sendMessage
  \/ fetchSuggestion
  \/ \E id \in 1..MaxSends : Responds(id) \/ ReadsEnd(id)

SpecHook == InitHook /\ [][NextHook]_vars

\* A caller calls handleError(error, context, retryFn?).
handleError(p) ==
  /\ he[p].pc \in {"idle", "done"}
  /\ p \in wl.procs
  /\ nreq < wl.maxReq
  /\ nreq' = nreq + 1
  /\ \E error \in Errors, context \in Contexts, hasRetry \in BOOLEAN :
       LET r == Handle(retryAttempts, NoCall, error, context, hasRetry)
       IN  /\ retryAttempts' = r.map
           /\ he' = [he EXCEPT ![p] = r.call]
  /\ UNCHANGED <<store, expiry, now, pc, req, lk, sw, up, acc, out, gh, wl, redisClient, hook, embedder>>

\* handleError, lines 57-60: the wait is over and retryFn is invoked.
Retries(p) ==
  /\ he[p].pc = "wait"
  /\ he' = [he EXCEPT ![p].pc = "retry", ![p].retries = @ + 1]
  /\ UNCHANGED <<store, expiry, now, pc, req, lk, sw, up, acc, out, gh, nreq, wl, redisClient, hook, retryAttempts, embedder>>

\* handleError, lines 60-71: retryFn settles. On success the count of the
\* context is deleted and the call returns; on an error the call goes on
\* as handleError(retryError, context, retryFn).
RetrySettles(p) ==
  /\ he[p].pc = "retry"
  /\ \E outcome \in wl.fetch :
       IF outcome = "ok"
       THEN /\ retryAttempts' = MapDelete(retryAttempts, he[p].context)
            /\ he' = [he EXCEPT ![p].pc = "done", ![p].result = "restored"]
       ELSE \E retryError \in Errors :
              LET r == Handle(retryAttempts, he[p], retryError, he[p].context, he[p].hasRetry)
              IN  /\ retryAttempts' = r.map
                  /\ he' = [he EXCEPT ![p] = r.call]
  /\ UNCHANGED <<store, expiry, now, pc, req, lk, sw, up, acc, out, gh, nreq, wl, redisClient, hook, embedder>>

NextRetry == \E p \in Procs : handleError(p) \/ Retries(p) \/ RetrySettles(p)

SpecRetry == InitRetry /\ [][NextRetry]_vars
SpecRetryConc == InitRetryConc /\ [][NextRetry]_vars

\* The same handlers, with clients that may cancel.
NextCancel ==
  \/ Next
  \/ \E p \in Procs : Cancel(p)

SpecCancel == InitCancel /\ [][NextCancel]_vars

\* ------------------------------------------------------------ properties

\* The category an entry was written under.
EntryCategory(entry) == <<entry.language, entry.framework>>

\* The entries in the store, and those of one category.
StoredEntries == {JSONParse(store[k]) : k \in {j \in DOMAIN store : JSONParses(store[j])}}
EntriesOf(category) == {e \in StoredEntries : EntryCategory(e) = category}

\* A handler's response is over.
Over(p) == pc[p] = "done" /\ out[p].status \in {"closed", "errored"}

\* No cacheSuggestion call is in progress.
NoWriteInProgress ==
  \A p \in Procs : pc[p] \notin {"write", "sweep_keys", "sweep_get", "sweep_del"}

\* A sweep of handler p deleted entries and the handler is done.
Swept(p) == pc[p] = "done" /\ sw[p].deleted # <<>>
Deleted(p) == {sw[p].deleted[i] : i \in 1..Len(sw[p].deleted)}

\* C1: a lookup reports a match only if some entry of the request's own
\* category is more than 0.85 similar to the query; when every entry of
\* that category is at or below 0.85 the lookup misses.
ThresholdExclusive ==
  \A p \in Procs :
    pc[p] = "lookup_hit" =>
      \E e \in EntriesOf(CategoryOf(req[p])) :
        ExceedsThreshold(calculateSimilarity(lk[p].q, e.embedding))

\* C2: the entry a lookup picks, returns and updates was written under the
\* category of the request, whatever language, framework or chat mode the
\* request names.
NamespaceIsolation ==
  \A p \in Procs :
    lk[p].best.found => EntryCategory(lk[p].best.entry) = CategoryOf(req[p])

\* C3: a code request repeating the one just completed, whose generation
\* finished and whose text was handed to cacheSuggestion, is served from
\* the cache: its last event is cached and the generation backend was not
\* called.
RepeatRequestHits ==
  \A p \in Procs :
    (pc[p] = "done" /\ req[p].kind = "code" /\ gh[p].repeat) =>
      /\ gh[p].fetches = 0
      /\ out[p].status = "closed"
      /\ out[p].events # <<>>
      /\ out[p].events[Len(out[p].events)].done
      /\ out[p].events[Len(out[p].events)].cached

\* C4: whenever no cacheSuggestion call is in progress the store holds at
\* most MAX_CACHE_SIZE entries.
CeilingInvariant ==
  NoWriteInProgress => Cardinality(DOMAIN store) <= MAX_CACHE_SIZE

\* C5: after a sweep that deleted entries, no deleted entry has more hits
\* than an entry still stored, and among equal hits no deleted entry was
\* touched later than one still stored.
EvictionRanking ==
  \A p \in Procs :
    Swept(p) =>
      \A d \in Deleted(p) : \A e \in StoredEntries :
        /\ d.hitCount <= e.hitCount
        /\ d.hitCount = e.hitCount => d.timestamp <= e.timestamp

\* A sweep deleted an entry with fewer hits than one it kept.
EvictionRankingWitness ==
  \E p \in Procs :
    /\ Swept(p)
    /\ \E d \in Deleted(p) : \E e \in StoredEntries : d.hitCount < e.hitCount

StreamTermination ==
  \A p \in Procs :
    Over(p) =>
      LET ev == out[p].events
      IN  /\ Cardinality({i \in 1..Len(ev) : ev[i].done}) = 1
          /\ ev[Len(ev)].done

\* C8: a request the lookup answered is replayed as exactly two events, a
\* chunk with the whole stored suggestion and the terminal event, both
\* cached; the stream is closed, the generation backend was not called and
\* cacheSuggestion was not called.
CacheHitReplay ==
  \A p \in Procs :
    gh[p].hit =>
      /\ pc[p] = "done"
      /\ out[p].status = "closed"
      /\ Len(out[p].events) = 2
      /\ LET first == out[p].events[1]
             last  == out[p].events[2]
         IN  /\ first.hasChunk /\ first.chunk = lk[p].best.entry.suggestion
             /\ ~first.done /\ first.cached /\ ~first.error
             /\ ~last.hasChunk /\ last.done /\ last.cached /\ ~last.error
      /\ gh[p].fetches = 0
      /\ gh[p].writes = 0

\* A chat request was answered from the cache with a suggestion of more
\* than one chunk.
CacheHitReplayWitness ==
  \E p \in Procs :
    /\ gh[p].hit
    /\ req[p].kind = "chat"
    /\ Len(out[p].events) = 2
    /\ Len(out[p].events[1].chunk) > 1

\* C9: when the generation backend refused the call or a read failed, the
\* response is closed with an event that carries an error.
UpstreamFailureReported ==
  \A p \in Procs :
    (pc[p] = "done" /\ up[p].ended \in {"refused", "error"}) =>
      /\ out[p].status = "closed"
      /\ \E i \in 1..Len(out[p].events) : out[p].events[i].error

\* C10: cacheSuggestion is called for a request only when the generation
\* backend said the generation is done.
NoPartialAnswerCached ==
  \A p \in Procs : gh[p].writes > 0 => up[p].ended = "done"

RECURSIVE RelayedText(_)
\* The chunks of the events of a response, in order, put together.
RelayedText(events) ==
  IF events = <<>> THEN <<>>
  ELSE (IF Head(events).hasChunk THEN Head(events).chunk ELSE <<>>) \o RelayedText(Tail(events))

\* The gateway's own terminal event of a miss is among the events.
TerminalSent(p) ==
  \E i \in 1..Len(out[p].events) :
    LET e == out[p].events[i] IN e.done /\ ~e.hasChunk /\ ~e.error /\ ~e.cached

\* C12: a line that does not parse is skipped. While nothing else ended the
\* upstream the relay goes on with the stream open, and the text kept for
\* caching is the relayed chunks put together in order.
MalformedChunkSkipped ==
  \A p \in Procs :
    /\ (up[p].skipped > 0 /\ up[p].ended = "none") =>
         pc[p] = "relay" /\ out[p].status = "open"
    /\ ~gh[p].hit => acc[p] = RelayedText(out[p].events)

\* A first line that did not parse was followed by a line that was relayed.
MalformedChunkSkippedWitness ==
  \E p \in Procs :
    /\ up[p].skipped = 1
    /\ up[p].n = 2
    /\ Len(out[p].events) = 1
    /\ out[p].events[1].hasChunk
    /\ acc[p] = out[p].events[1].chunk

HitOn(k) ==
  \E p \in Procs : pc[p] = "lookup_hit" /\ pc'[p] # "lookup_hit" /\ lk[p].best.key = k

\* C14: with requests one after another, an entry starts with hitCount 0,
\* every hit on it adds exactly one to its hitCount and sets its timestamp
\* to the time of the hit, and no other step touches either: after k hits
\* the hitCount is k and the timestamp the time of the k-th hit.
HitAccounting ==
  [][\A k \in DOMAIN store' :
       IF k \notin DOMAIN store THEN JSONParse(store'[k]).hitCount = 0
       ELSE IF HitOn(k)
            THEN /\ JSONParse(store'[k]).hitCount = JSONParse(store[k]).hitCount + 1
                 /\ JSONParse(store'[k]).timestamp = now
            ELSE /\ JSONParse(store'[k]).hitCount = JSONParse(store[k]).hitCount
                 /\ JSONParse(store'[k]).timestamp = JSONParse(store[k]).timestamp]_vars

\* An entry written at time 0 has two hits, the second at time 2.
HitAccountingWitness ==
  \E e \in StoredEntries : e.id[1] = "0" /\ e.hitCount = 2 /\ e.timestamp = 2

\* C15: the hitCount stored under a key never decreases while the key
\* exists.
HitCountMonotonic ==
  [][\A k \in DOMAIN store \cap DOMAIN store' :
       JSONParse(store'[k]).hitCount >= JSONParse(store[k]).hitCount]_vars

\* A body that lacks a required field or has a cursor below zero.
Malformed(body) ==
  IF body.kind = "code"
  THEN \/ body.fileContent = <<>> \/ body.suggestionType = <<>>
       \/ body.cursorLine = <<>> \/ body.cursorColumn = <<>>
       \/ body.cursorLine[1] < 0 \/ body.cursorColumn[1] < 0
  ELSE body.kind = "chat" /\ body.message = <<>>

\* C16: a request with a required field missing or a cursor below zero is
\* answered 400 at once: no lookup, no upstream call, no cacheSuggestion.
ValidationPrecedesWork ==
  \A p \in Procs :
    Malformed(req[p]) =>
      /\ pc[p] = "done"
      /\ out[p].status = "http400"
      /\ lk[p] = NoLookup
      /\ gh[p].fetches = 0
      /\ gh[p].writes = 0

\* C17: a lookup in which the store could not be reached, listed, read or
\* written back is a miss: no replay, no failure answered to the client,
\* and the request goes on to the generation backend, called once.
StoreFailureIsMiss ==
  \A p \in Procs :
    gh[p].lookupFailed =>
      /\ ~gh[p].hit
      /\ out[p].status \notin {"http500", "http400"}
      /\ \A i \in 1..Len(out[p].events) : ~out[p].events[i].cached
      /\ IF pc[p] = "fetch" THEN gh[p].fetches = 0 /\ out[p] = NoOut
                            ELSE gh[p].fetches = 1

\* A lookup that had found its match, failed in the write-back and was
\* served by a generation to the end.
StoreFailureIsMissWitness ==
  \E p \in Procs :
    /\ gh[p].lookupFailed
    /\ lk[p].best.found
    /\ pc[p] = "done"
    /\ TerminalSent(p)

\* C18: a commit or a sweep in which the store failed is not retried and
\* does not show in the response: the stream closes on the terminal event
\* of a miss, with no error event.
WritesBestEffort ==
  \A p \in Procs :
    gh[p].writeFailed =>
      /\ pc[p] = "done"
      /\ gh[p].writes = 1
      /\ out[p].status = "closed"
      /\ out[p].events # <<>>
      /\ out[p].events[Len(out[p].events)] = DoneEvent(FALSE)
      /\ \A i \in 1..Len(out[p].events) : ~out[p].events[i].error

\* A sweep that had begun and failed partway, after text was relayed.
WritesBestEffortWitness ==
  \E p \in Procs :
    /\ gh[p].writeFailed
    /\ sw[p].ran
    /\ Len(out[p].events) > 1

\* A step taken by handler p and by no other.
StepOf(p) ==
  /\ <<pc[p], lk[p], sw[p], up[p]>>' # <<pc[p], lk[p], sw[p], up[p]>>
  /\ \A q \in Procs \ {p} : <<pc[q], lk[q], sw[q], up[q]>>' = <<pc[q], lk[q], sw[q], up[q]>>

\* C19: a lookup whose embedding failed compares the zero vector, matches
\* nothing and is a miss, whatever the store holds: nothing is replayed,
\* nothing fails, and no step of the lookup changes the store.
EmbeddingFailureIsMiss ==
  [][\A p \in Procs :
       gh'[p].embedFailed =>
         /\ ~gh'[p].hit
         /\ ~lk'[p].best.found
         /\ pc'[p] # "lookup_hit"
         /\ out'[p].status # "http500"
         /\ \A i \in 1..Len(out'[p].events) : ~out'[p].events[i].cached
         /\ (StepOf(p) /\ pc[p] \in {"idle", "done", "lookup_get", "lookup_hit"})
              => store' = store]_vars

\* A lookup with a failed embedding that went through entries of its own
\* context, stored with a working model, and came out a miss.
EmbeddingFailureIsMissWitness ==
  \E p \in Procs :
    /\ gh[p].embedFailed
    /\ ~gh[p].lookupFailed
    /\ pc[p] = "fetch"
    /\ \E k \in DOMAIN store :
         /\ JSONParse(store[k]).context = ContextOf(CacheInputOf(req[p]))
         /\ JSONParse(store[k]).embedding # ZeroVector

\* C20: however the requests interleave, the load of the embedding model
\* is started at most once.
SingleModelLoad == embedder.loads <= 1

\* C11: a request whose client has cancelled commits nothing:
\* cacheSuggestion is not called once the stream is cancelled.
NoCommitAfterCancel == \A p \in Procs : ~gh[p].lateWrite

\* C21: a call of the stats endpoint leaves the store as it was, corrupted
\* values included.
StatsReadOnly ==
  [][\A p \in Procs :
       (nreq' # nreq /\ out'[p].status = "stats" /\ pc[p] \in {"idle", "done"})
         => store' = store /\ expiry' = expiry]_vars

\* Stats were answered over a store holding a value that does not parse
\* and an entry that does.
StatsReadOnlyWitness ==
  \E p \in Procs :
    /\ out[p].status = "stats"
    /\ out[p].stats.totalEntries >= 2
    /\ \E k \in DOMAIN store : ~JSONParses(store[k])
    /\ \E l \in DOMAIN out[p].stats.entriesByLanguage :
         out[p].stats.entriesByLanguage[l] < out[p].stats.totalEntries

\* The key under which handler p's cacheSuggestion writes at this time.
WrittenKey(p) ==
  LET input == CacheInputOf(req[p])
  IN  EntryKey(input.language, input.framework, generateCacheId(input, now))

\* C22: the suggestion an entry holds, which a hit replays as it is,
\* equals the chunks streamed to the client on the miss that created the
\* entry, put together.
ReplayEqualsStream ==
  \A p \in Procs :
    (pc[p] = "sweep_keys" /\ WrittenKey(p) \in DOMAIN store)
      => JSONParse(store[WrittenKey(p)]).suggestion = RelayedText(out[p].events)

\* C23: an entry whose TTL has ended is not returned by a lookup and is
\* not brought back by a hit's write-back: a key comes into the store
\* only by cacheSuggestion, and a hit is answered from a key the store
\* still holds.
ExpiredStaysGone ==
  [][/\ \A k \in DOMAIN store' \ DOMAIN store :
          \E p \in Procs : pc[p] = "write" /\ pc'[p] = "sweep_keys" /\ k = WrittenKey(p)
     /\ \A p \in Procs :
          (pc[p] = "lookup_hit" /\ gh'[p].hit /\ ~gh[p].hit) => lk[p].best.key \in DOMAIN store]_vars

\* The similarity of a query to the entry a store holds under key k.
SimilarityTo(q, st, k) == calculateSimilarity(q, JSONParse(st[k]).embedding)

\* The keys of a store's readable entries in the namespace of a request.
ReadableKeys(st, body) ==
  LET input == CacheInputOf(body)
  IN  {k \in DOMAIN st : /\ GlobMatch(LookupPattern(input.language, input.framework), k)
                         /\ JSONParses(st[k])}

SweepReachesTarget ==
  \A p \in Procs :
    (pc[p] = "done" /\ sw[p].ran /\ ~gh[p].writeFailed)
      => Cardinality(DOMAIN store) = MAX_CACHE_SIZE - CLEANUP_MARGIN

Writes(p) == pc[p] = "write" /\ pc'[p] = "sweep_keys"

\* C29: every cacheSuggestion that stores writes under a key the store
\* does not hold yet, two calls within one millisecond included: the
\* number of keys goes up by one.
IdUniqueness ==
  [][\A p \in Procs :
       Writes(p) => /\ WrittenKey(p) \notin DOMAIN store
                    /\ Cardinality(DOMAIN store') = Cardinality(DOMAIN store) + 1]_vars

\* C27: a cacheSuggestion that leaves no more keys than the ceiling adds
\* one entry, with hitCount 0, the time of the write and the TTL, and
\* leaves every entry the store held as it was.
AppendOnlyWrite ==
  [][\A p \in Procs :
       (Writes(p) /\ Cardinality(DOMAIN store') <= MAX_CACHE_SIZE)
         => /\ \A k \in DOMAIN store : k \in DOMAIN store' /\ store'[k] = store[k]
            /\ DOMAIN store' = DOMAIN store \cup {WrittenKey(p)}
            /\ JSONParse(store'[WrittenKey(p)]).hitCount = 0
            /\ JSONParse(store'[WrittenKey(p)]).timestamp = now
            /\ expiry'[WrittenKey(p)] = now + CACHE_TTL]_vars

\* Handler p's lookup writes its match back in this step.
WritesBack(p) == pc[p] = "lookup_hit" /\ gh'[p].hit /\ ~gh[p].hit

\* The entry the store holds under the key of p's best match is the entry
\* p read, up to the hits that overlapping lookups have counted since: no
\* write has replaced it in between.
OnlyLookupsSince(p) ==
  LET k == lk[p].best.key
  IN  /\ k \in DOMAIN store
      /\ JSONParses(store[k])
      /\ JSONParse(store[k]).hitCount >= lk[p].best.entry.hitCount
      /\ \A f \in {"id", "context", "embedding", "suggestion", "language", "framework"} :
           JSONParse(store[k])[f] = lk[p].best.entry[f]

\* C28: when lookups that hit one entry overlap, each write-back leaves
\* the entry with at least one hit counted and at most one more than the
\* store held, so n of them raise hitCount by 1 to n; the entry's id,
\* context, embedding, suggestion and category stay what the store held.
ApproximateCounting ==
  [][\A p \in Procs :
       LET k == lk[p].best.key
       IN  (/\ WritesBack(p)
            /\ OnlyLookupsSince(p))
             => /\ JSONParse(store'[k]).hitCount >= 1
                /\ JSONParse(store'[k]).hitCount > lk[p].best.entry.hitCount
                /\ JSONParse(store'[k]).hitCount <= JSONParse(store[k]).hitCount + 1
                /\ \A f \in {"id", "context", "embedding", "suggestion", "language", "framework"} :
                     JSONParse(store'[k])[f] = JSONParse(store[k])[f]]_vars

\* Two lookups overlapped on one entry that had no hit, both hit, and one
\* hit is counted.
ApproximateCountingWitness ==
  \E p, q \in Procs :
    /\ p # q
    /\ gh[p].hit /\ gh[q].hit
    /\ pc[p] = "done" /\ pc[q] = "done"
    /\ lk[p].best.key = lk[q].best.key
    /\ lk[p].best.entry.hitCount = 0 /\ lk[q].best.entry.hitCount = 0
    /\ lk[p].best.key \in DOMAIN store
    /\ JSONParse(store[lk[p].best.key]).hitCount = 1

\* The lines a code context holds between its header and its cursor line.
ContextLinesOf(context) ==
  LET parts == SplitOn(context, NL) IN SubSeq(parts, 4, Len(parts) - 2)

\* Lines lo through hi of a file, counted from 0.
FileLines(fileContent, lo, hi) ==
  LET lines == SplitOn(fileContent, NL) IN [i \in 1..(hi - lo + 1) |-> lines[lo + i]]

\* C30: the lines of the code context are the lines from five above the
\* cursor line through five below it, clamped to the file, in file order.
ContextWindow ==
  \A p \in Procs :
    (pc[p] # "idle" /\ req[p].kind = "code" /\ req[p].cursorLine # <<>>) =>
      LET input == CacheInputOf(req[p])
          c     == req[p].cursorLine[1]
          last  == Len(SplitOn(req[p].fileContent, NL)) - 1
      IN  (c >= 0 /\ c <= last) =>
            ContextLinesOf(ContextOf(input))
              = FileLines(req[p].fileContent, Max2(0, c - 5), Min2(last, c + 5))

\* The lines of a chat context between the `Recent conversation:` header
\* and the current message.
TurnLinesOf(context) ==
  LET lines == SplitOn(context, NL)
  IN  SubSeq(lines, 3, Len(lines) - 1)

\* C31: the context of a chat request holds, between the header and the
\* current message, the last min(3, n) turns of the request's history,
\* each cut to 200 characters.
ChatContextTurns ==
  \A p \in Procs :
    (pc[p] # "idle" /\ req[p].kind = "chat") =>
      LET history == req[p].history
          n       == Len(history)
          recent  == SubSeq(history, n - Min2(3, n) + 1, n)
      IN  TurnLinesOf(ContextOf(CacheInputOf(req[p])))
            = [i \in 1..Len(recent) |->
                 <<recent[i].role, ": ">> \o Slice(recent[i].content, 0, 200)]

\* Every component of the vector is 0.
ZeroMagnitude(v) == \A i \in 1..Len(v) : v[i] = 0

\* The comparison p made is one of the degenerate ones.
Degenerate(p) ==
  /\ out[p].status = "similarity"
  /\ \/ Len(out[p].embedding1) # Len(out[p].embedding2)
     \/ ZeroMagnitude(out[p].embedding1)
     \/ ZeroMagnitude(out[p].embedding2)

\* C32: the similarity of two vectors of different lengths, or of which
\* one has zero magnitude, is 0, and such a comparison never qualifies as
\* a hit.
DegenerateSimilarity ==
  \A p \in Procs :
    Degenerate(p) =>
      /\ out[p].similarity = [sgn |-> 0, p |-> 0, q |-> 1]
      /\ ~out[p].qualifies

\* Two vectors of different lengths, neither of zero magnitude and the
\* shorter a prefix of the longer, were compared.
DegenerateSimilarityWitness ==
  \E p \in Procs :
    /\ Degenerate(p)
    /\ out[p].embedding1 = <<1>>
    /\ out[p].embedding2 = <<1, 0>>

\* The step is one of p's lookup: a get of the loop over the keys, or the
\* write-back of the best match.
LooksUp(p) == StepOf(p) /\ pc[p] \in {"lookup_get", "lookup_hit"}

\* C33: a step of a lookup that writes back a hit changes the entry of
\* the best match only, raising its hitCount by one and renewing its
\* timestamp and expiry, with its id, context, embedding, suggestion and
\* category as they were; every other step of a lookup leaves the store
\* as it was.
LookupFootprint ==
  [][\A p \in Procs :
       LooksUp(p) =>
         IF WritesBack(p)
         THEN LET k == lk[p].best.key
              IN  /\ k \in DOMAIN store
                  /\ DOMAIN store' = DOMAIN store
                  /\ \A j \in DOMAIN store \ {k} :
                       store'[j] = store[j] /\ expiry'[j] = expiry[j]
                  /\ JSONParse(store'[k]).hitCount = JSONParse(store[k]).hitCount + 1
                  /\ \A f \in {"id", "context", "embedding", "suggestion", "language", "framework"} :
                       JSONParse(store'[k])[f] = JSONParse(store[k])[f]
         ELSE store' = store /\ expiry' = expiry]_vars

\* C34: a storage key comes into being only by the write of a new entry:
\* the write-back of a hit on an entry that a sweep has deleted since the
\* lookup read it leaves the entry deleted.
NoResurrectionByHit ==
  [][\A k \in DOMAIN store' \ DOMAIN store :
       \E p \in Procs : Writes(p) /\ k = WrittenKey(p)]_vars

\* p's cacheSuggestion returns: its sweep ends, at the count or after the
\* deletion.
SweepReturns(p) ==
  /\ pc[p] \in {"sweep_keys", "sweep_del"}
  /\ pc'[p] \notin {"sweep_keys", "sweep_get", "sweep_del"}

\* C35: when cacheSuggestion returns after its write, the entry it wrote
\* is in the store, whatever the other entries' hitCounts and timestamps
\* and whether or not the sweep deleted anything.
WriteSurvivesOwnSweep ==
  [][\A p \in Procs :
       (SweepReturns(p) /\ ~gh[p].writeFailed) => WrittenKey(p) \in DOMAIN store']_vars

\* C36: at most one store client is created, and every caller of
\* getRedisClient gets the client after its connect has completed.
ClientInitialisation ==
  /\ redisClient.created <= 1
  /\ \A p \in Procs : out[p].status \in {"client", "listed", "queued", "keys_error"} => out[p].connected

\* The requests of the hook that are in flight: sent, not ended, and
\* neither aborted nor cancelled.
InFlight(h) ==
  {id \in DOMAIN h.requests :
     /\ h.requests[id].pc # "ended"
     /\ ~h.requests[id].aborted
     /\ ~h.requests[id].cancelled}

\* C37: a new request and a call of cancelStream stop every request that
\* is in flight, also after a superseded request has run its cleanup.
CancellationReachesLive ==
  [][(cancelStream \/ sendMessage \/ fetchSuggestion) =>
       \A id \in InFlight(hook) : id \notin InFlight(hook')]_vars

\* C38: when the chat hook is not streaming and has no current streaming
\* message, no message of its list is marked isStreaming.
StreamingFlagsAgree ==
  (hook.kind = "chat" /\ ~hook.isStreaming /\ hook.currentStreamingMessageId = 0) =>
    \A m \in DOMAIN hook.messages : ~hook.messages[m]

\* p's handleError call returns in this step.
CallReturns(p) == he[p].pc # "done" /\ he'[p].pc = "done"

\* C39: one handleError call invokes its retry function at most
\* maxRetries times, waits and retries only for a recoverable error, and
\* when it returns after a successful retry or with the attempts
\* exhausted, the retry count of its context is 0.
BoundedRetry ==
  [][\A p \in Procs :
       /\ he'[p].retries <= maxRetries
       /\ he'[p].pc \in {"wait", "retry"} => he'[p].recoverable
       /\ (CallReturns(p) /\ (he'[p].result = "restored" \/ he'[p].attempts >= maxRetries))
            => RetryCount(retryAttempts', he'[p].context) = 0]_vars

\* C40: the waits before the successive retries of one call grow
\* exponentially: each is the same multiple, at least double, of the
\* wait before it.
ExponentialBackoff ==
  \A p \in Procs :
    LET d == he[p].delays
    IN  \A i \in 1..(Len(d) - 1) :
          /\ d[i + 1] >= 2 * d[i]
          /\ \A j \in 1..(Len(d) - 1) : d[i + 1] * d[j] = d[j + 1] * d[i]

====
